---- MODULE Spec2Model ----
(***************************************************************************)
(* A model of the chess engine of arthurBricq/chess_rust: the bitboard     *)
(* position (model/src/game.rs), the pseudo-legal move generator           *)
(* (model/src/game/moves.rs), the attack generator (game/attacks.rs), the  *)
(* move containers (moves_container.rs), the alpha-beta searcher and the   *)
(* iterative-deepening driver (engine/src).                                *)
(*                                                                         *)
(* A u64 bitboard is modelled by the set of the indices of its set bits,   *)
(* a subset of 0..63: is_set!(a, i) is i \in a, set_at! is union and       *)
(* clear_at! is set difference.  consume_bits! visits the set bits from    *)
(* the least significant one, i.e. the squares in ascending order.         *)
(***************************************************************************)
EXTENDS Integers, Sequences, FiniteSets, TLC

Squares == 0 .. 63

\* The squares 0, 1, ..., 63 in ascending order.
AllSquaresSeq == [i \in 1 .. 64 |-> i - 1]

\* consume_bits!: the set bits of a bitboard, least significant first.
consume_bits(bits) == SelectSeq(AllSquaresSeq, LAMBDA s : s \in bits)

RECURSIVE Flatten(_)
\* Concatenation of a sequence of sequences (nested loops that push in order).
Flatten(ss) == IF ss = << >> THEN << >> ELSE Head(ss) \o Flatten(Tail(ss))

SeqToSet(s) == {s[i] : i \in 1 .. Len(s)}

Max(a, b) == IF a >= b THEN a ELSE b
Min(a, b) == IF a <= b THEN a ELSE b

(***************************************************************************)
(* Piece types and their material value (Type::score).                     *)
(***************************************************************************)
Types == {"Pawn", "Bishop", "Knight", "Rook", "Queen", "King"}

TypeScore(t) ==
    CASE t = "Pawn" -> 1
      [] t = "Bishop" -> 3
      [] t = "Knight" -> 3
      [] t = "Rook" -> 5
      [] t = "Queen" -> 10
      [] t = "King" -> 1000

(***************************************************************************)
(* Moves.  quality is the ordering tag; QualityRank gives the total order  *)
(* Principal > KillerMove > GoodCapture > EqualCapture > LowCapture >      *)
(* Motion used by the ordering of moves.                                   *)
(***************************************************************************)
Qualities == {"Principal", "KillerMove", "GoodCapture", "EqualCapture", "LowCapture", "Motion"}

QualityRank(q) ==
    CASE q = "Principal" -> 5
      [] q = "KillerMove" -> 4
      [] q = "GoodCapture" -> 3
      [] q = "EqualCapture" -> 2
      [] q = "LowCapture" -> 1
      [] q = "Motion" -> 0

\* Move::new: a move is a Motion until a quality is stamped on it.
NewMove(from, to, is_white) ==
    [from |-> from, to |-> to, is_white |-> is_white, quality |-> "Motion"]

set_quality(m, q) == [m EXCEPT !.quality = q]

\* Move::set_quality_from_scores: MVV-LVA class of a capture.
set_quality_from_scores(m, piece, captured) ==
    IF TypeScore(piece) < TypeScore(captured) THEN set_quality(m, "GoodCapture")
    ELSE IF TypeScore(piece) = TypeScore(captured) THEN set_quality(m, "EqualCapture")
    ELSE set_quality(m, "LowCapture")

\* Move::is_capture
is_capture(m) == m.quality # "Motion"

\* Equality on moves compares only from and to.
SameMove(a, b) == a.from = b.from /\ a.to = b.to

(***************************************************************************)
(* Precomputed attack tables.                                              *)
(***************************************************************************)
OnBoard(r, f) == r >= 0 /\ r < 8 /\ f >= 0 /\ f < 8

KnightOffsets == {<<2, 1>>, <<2, -1>>, <<-2, 1>>, <<-2, -1>>,
                  <<1, 2>>, <<1, -2>>, <<-1, 2>>, <<-1, -2>>}

KingOffsets == {<<0, 1>>, <<1, 1>>, <<1, 0>>, <<1, -1>>,
                <<0, -1>>, <<-1, -1>>, <<-1, 0>>, <<-1, 1>>}

OffsetMask(sq, offsets) ==
    {((sq \div 8) + o[1]) * 8 + ((sq % 8) + o[2]) :
        o \in {p \in offsets : OnBoard((sq \div 8) + p[1], (sq % 8) + p[2])}}

KNIGHT_ATTACK_MASKS == [sq \in Squares |-> OffsetMask(sq, KnightOffsets)]

KING_ATTACK_MASKS == [sq \in Squares |-> OffsetMask(sq, KingOffsets)]

\* pawn_attacks(): the white table, then the black table.
WHITE_PAWN_ATTACKS ==
    [position \in Squares |->
        IF position \div 8 < 7
        THEN (IF position % 8 > 0 THEN {position + 7} ELSE {})
             \cup (IF position % 8 < 7 THEN {position + 9} ELSE {})
        ELSE {}]

BLACK_PAWN_ATTACKS ==
    [position \in Squares |->
        IF position \div 8 > 0
        THEN (IF position % 8 > 0 THEN {position - 9} ELSE {})
             \cup (IF position % 8 < 7 THEN {position - 7} ELSE {})
        ELSE {}]

PAWN_ATTACK_MASKS(white) == IF white THEN WHITE_PAWN_ATTACKS ELSE BLACK_PAWN_ATTACKS

\* The eight sliding directions, in the fixed order N, S, E, W, NE, NW, SE, SW,
\* as <<rank step, file step>>.
Directions == << <<1, 0>>, <<-1, 0>>, <<0, 1>>, <<0, -1>>,
                 <<1, 1>>, <<1, -1>>, <<-1, 1>>, <<-1, -1>> >>

\* The ordered ray from sq in direction d (index 0..7): the squares reached by
\* stepping one square at a time until the board edge.
RayFrom(d, sq) ==
    LET dr == Directions[d + 1][1]
        df == Directions[d + 1][2]
        n  == Cardinality({k \in 1 .. 7 : OnBoard((sq \div 8) + k * dr, (sq % 8) + k * df)})
    IN [k \in 1 .. n |-> ((sq \div 8) + k * dr) * 8 + ((sq % 8) + k * df)]

SLIDING_ATTACK_MASKS == [d \in 0 .. 7 |-> [sq \in Squares |-> RayFrom(d, sq)]]

(***************************************************************************)
(* The position: eight 64-bit words.                                       *)
(***************************************************************************)
FLAG_WK_MOVED == 0
FLAG_BK_MOVED == 1
FLAG_WK_CASTLED == 2
FLAG_BK_CASTLED == 3

\* GameConstructor::empty
empty ==
    [whites |-> {}, pawns |-> {}, bishops |-> {}, knights |-> {},
     rooks |-> {}, queens |-> {}, kings |-> {}, flags |-> {}]

pos_to_index(x, y) == x + 8 * y

\* ChessGame::set_piece
set_piece(g, piece, white, at) ==
    LET g1 == CASE piece = "Pawn" -> [g EXCEPT !.pawns = @ \cup {at}]
                [] piece = "Bishop" -> [g EXCEPT !.bishops = @ \cup {at}]
                [] piece = "Knight" -> [g EXCEPT !.knights = @ \cup {at}]
                [] piece = "Rook" -> [g EXCEPT !.rooks = @ \cup {at}]
                [] piece = "Queen" -> [g EXCEPT !.queens = @ \cup {at}]
                [] piece = "King" -> [g EXCEPT !.kings = @ \cup {at}]
    IN IF white THEN [g1 EXCEPT !.whites = @ \cup {at}] ELSE g1

\* ChessGame::block_castling
block_castling(g) ==
    [g EXCEPT !.flags = @ \cup {FLAG_BK_CASTLED, FLAG_WK_CASTLED, FLAG_WK_MOVED, FLAG_BK_MOVED}]

\* GameConstructor::standard_game
standard_game ==
    [whites  |-> {pos_to_index(i, 1) : i \in 0 .. 7}
                 \cup {pos_to_index(4, 0), pos_to_index(3, 0), pos_to_index(0, 0),
                       pos_to_index(7, 0), pos_to_index(2, 0), pos_to_index(5, 0),
                       pos_to_index(1, 0), pos_to_index(6, 0)},
     pawns   |-> {pos_to_index(i, 1) : i \in 0 .. 7} \cup {pos_to_index(i, 6) : i \in 0 .. 7},
     kings   |-> {pos_to_index(4, 0), pos_to_index(4, 7)},
     queens  |-> {pos_to_index(3, 0), pos_to_index(3, 7)},
     rooks   |-> {pos_to_index(0, 0), pos_to_index(7, 0), pos_to_index(0, 7), pos_to_index(7, 7)},
     bishops |-> {pos_to_index(2, 0), pos_to_index(5, 0), pos_to_index(2, 7), pos_to_index(5, 7)},
     knights |-> {pos_to_index(1, 0), pos_to_index(6, 0), pos_to_index(1, 7), pos_to_index(6, 7)},
     flags   |-> {}]

\* One character of the board field of a FEN string: a digit skips squares, a
\* letter sets a piece (upper case: white).  A rank is the sequence of its
\* characters, the board field the sequence of its ranks, rank 8 first.
FenDigits == {"1", "2", "3", "4", "5", "6", "7", "8"}

\* c.to_digit(10)
to_digit(c) ==
    CASE c = "1" -> 1 [] c = "2" -> 2 [] c = "3" -> 3 [] c = "4" -> 4
      [] c = "5" -> 5 [] c = "6" -> 6 [] c = "7" -> 7 [] c = "8" -> 8

FenPiece(c) ==
    CASE c \in {"p", "P"} -> "Pawn"
      [] c \in {"r", "R"} -> "Rook"
      [] c \in {"n", "N"} -> "Knight"
      [] c \in {"b", "B"} -> "Bishop"
      [] c \in {"q", "Q"} -> "Queen"
      [] c \in {"k", "K"} -> "King"

FenIsWhite(c) == c \in {"P", "R", "N", "B", "Q", "K"}

RECURSIVE FenRank(_, _, _, _)
FenRank(g, tokens, col, row) ==
    IF tokens = << >> THEN g
    ELSE IF Head(tokens) \in FenDigits
         THEN FenRank(g, Tail(tokens), col + to_digit(Head(tokens)), row)
         ELSE FenRank(set_piece(g, FenPiece(Head(tokens)), FenIsWhite(Head(tokens)),
                                pos_to_index(col, row)),
                      Tail(tokens), col + 1, row)

RECURSIVE FenRanks(_, _, _)
FenRanks(g, ranks, rank_idx) ==
    IF ranks = << >> THEN g
    ELSE FenRanks(FenRank(g, Head(ranks), 0, 7 - rank_idx), Tail(ranks), rank_idx + 1)

\* GameConstructor::from_fen: only the board field is read, flags are 0.
from_fen(board) == FenRanks(empty, board, 0)

(***************************************************************************)
(* Queries on a position.                                                  *)
(***************************************************************************)
\* ChessGame::type_at_index; "None" when the square is empty.
type_at_index(g, at) ==
    IF at \in g.pawns THEN "Pawn"
    ELSE IF at \in g.bishops THEN "Bishop"
    ELSE IF at \in g.knights THEN "Knight"
    ELSE IF at \in g.rooks THEN "Rook"
    ELSE IF at \in g.kings THEN "King"
    ELSE IF at \in g.queens THEN "Queen"
    ELSE "None"

\* The union of the six piece bitboards.
Occupancy(g) == g.rooks \cup g.kings \cup g.queens \cup g.pawns \cup g.bishops \cup g.knights

\* ChessGame::has_piece_at
has_piece_at(g, at) == at \in Occupancy(g)

\* ChessGame::is_finished
is_finished(g) == Cardinality(g.kings) # 2

\* pieces_for_color!: the pieces of a bitboard that belong to one side.
pieces_for_color(whites, pieces, white_playing) ==
    IF white_playing THEN pieces \cap whites ELSE pieces \ whites

\* The en-passant target bitboard read by the pawn-capture section of the
\* generator.  The position has no such word and no operation sets one.
en_passant_target(g) == {}

(***************************************************************************)
(* Attack generator (game/attacks.rs).                                     *)
(***************************************************************************)
\* A ray that stops before the first occupied square.
RayAttacks_StopBefore(ray, occupancy) ==
    {ray[i] : i \in {k \in 1 .. Len(ray) : \A j \in 1 .. k : ray[j] \notin occupancy}}

\* The squares of a ray up to and including the first occupied one.
RayAttacks(ray, occupancy) ==
    {ray[i] : i \in {k \in 1 .. Len(ray) : \A j \in 1 .. (k - 1) : ray[j] \notin occupancy}}

\* ChessGame::get_attacked_squares_from_sliding_piece; the range of direction
\* indices is lo .. hi - 1.
get_attacked_squares_from_sliding_piece(g, pieces, lo, hi) ==
    UNION {RayAttacks(SLIDING_ATTACK_MASKS[dir][sq], Occupancy(g)) :
              sq \in pieces, dir \in lo .. (hi - 1)}

get_attacked_squares_pawn(g, white_playing) ==
    UNION {PAWN_ATTACK_MASKS(white_playing)[sq] :
              sq \in pieces_for_color(g.whites, g.pawns, white_playing)}

get_attacked_squares_knight(g, white_playing) ==
    UNION {KNIGHT_ATTACK_MASKS[sq] : sq \in pieces_for_color(g.whites, g.knights, white_playing)}

get_attacked_squares_king(g, white_playing) ==
    UNION {KING_ATTACK_MASKS[sq] : sq \in pieces_for_color(g.whites, g.kings, white_playing)}

get_attacked_squares_rook(g, white_playing) ==
    get_attacked_squares_from_sliding_piece(
        g, pieces_for_color(g.whites, g.rooks, white_playing), 0, 4)

get_attacked_squares_bishop(g, white_playing) ==
    get_attacked_squares_from_sliding_piece(
        g, pieces_for_color(g.whites, g.bishops, white_playing), 4, 8)

get_attacked_squares_queen(g, white_playing) ==
    get_attacked_squares_from_sliding_piece(
        g, pieces_for_color(g.whites, g.queens, white_playing), 0, 8)

\* ChessAttacks::get_attacked_squares
get_attacked_squares(g, white_playing) ==
    get_attacked_squares_bishop(g, white_playing)
    \cup get_attacked_squares_knight(g, white_playing)
    \cup get_attacked_squares_king(g, white_playing)
    \cup get_attacked_squares_pawn(g, white_playing)
    \cup get_attacked_squares_queen(g, white_playing)
    \cup get_attacked_squares_rook(g, white_playing)

(***************************************************************************)
(* Move generator (game/moves.rs).  Each section is the sequence of the    *)
(* moves it pushes, in the order it pushes them.                           *)
(***************************************************************************)
\* The targets of a jumping piece that yield a move: empty squares and
\* squares held by the other side.
JumpTargets(g, mask, white_playing) ==
    SelectSeq(consume_bits(mask),
              LAMBDA to : to \notin Occupancy(g) \/ ((to \in g.whites) # white_playing))

\* 1. Knights
KnightMovesFrom(g, from, white_playing) ==
    LET targets == JumpTargets(g, KNIGHT_ATTACK_MASKS[from], white_playing)
    IN [j \in 1 .. Len(targets) |->
           IF targets[j] \notin Occupancy(g)
           THEN NewMove(from, targets[j], white_playing)
           ELSE set_quality_from_scores(NewMove(from, targets[j], white_playing),
                                        "Knight", type_at_index(g, targets[j]))]

KnightMoves(g, white_playing) ==
    LET pieces == consume_bits(pieces_for_color(g.whites, g.knights, white_playing))
    IN Flatten([i \in 1 .. Len(pieces) |-> KnightMovesFrom(g, pieces[i], white_playing)])

\* A king section that classifies its captures by material, as the knight
\* section does.
KingMovesFrom_ByScores(g, from, white_playing) ==
    LET targets == JumpTargets(g, KING_ATTACK_MASKS[from], white_playing)
    IN [j \in 1 .. Len(targets) |->
           IF targets[j] \notin Occupancy(g)
           THEN NewMove(from, targets[j], white_playing)
           ELSE set_quality_from_scores(NewMove(from, targets[j], white_playing),
                                        "King", type_at_index(g, targets[j]))]

\* 2. Kings: every king capture is an EqualCapture.
KingMovesFrom(g, from, white_playing) ==
    LET targets == JumpTargets(g, KING_ATTACK_MASKS[from], white_playing)
    IN [j \in 1 .. Len(targets) |->
           IF targets[j] \notin Occupancy(g)
           THEN NewMove(from, targets[j], white_playing)
           ELSE set_quality(NewMove(from, targets[j], white_playing), "EqualCapture")]

KingMoves(g, white_playing) ==
    LET pieces == consume_bits(pieces_for_color(g.whites, g.kings, white_playing))
    IN Flatten([i \in 1 .. Len(pieces) |-> KingMovesFrom(g, pieces[i], white_playing)])

\* 3.a Pawn attacks: a diagonal onto a piece of the other side, or onto the
\* empty en-passant target; both are stamped GoodCapture.
PawnAttacksFrom(g, from, white_playing) ==
    LET targets == SelectSeq(consume_bits(PAWN_ATTACK_MASKS(white_playing)[from]),
                       LAMBDA to :
                           \/ to \in Occupancy(g) /\ ((to \in g.whites) # white_playing)
                           \/ to \notin Occupancy(g) /\ to \in en_passant_target(g))
    IN [j \in 1 .. Len(targets) |->
           set_quality(NewMove(from, targets[j], white_playing), "GoodCapture")]

PawnAttackMoves(g, white_playing) ==
    LET pieces == consume_bits(pieces_for_color(g.whites, g.pawns, white_playing))
    IN Flatten([i \in 1 .. Len(pieces) |-> PawnAttacksFrom(g, pieces[i], white_playing)])

\* Pawn motions whose double step does not look at the square jumped over.
PawnPushesFrom_NoJumpCheck(g, from, white_playing) ==
    LET occupancy == Occupancy(g)
        rank == from \div 8
    IN (IF white_playing
        THEN (IF (from + 8) \notin occupancy
              THEN <<NewMove(from, from + 8, white_playing)>> ELSE << >>)
        ELSE (IF (from - 8) \notin occupancy
              THEN <<NewMove(from, from - 8, white_playing)>> ELSE << >>))
       \o (IF white_playing /\ rank = 1 /\ (from + 16) \notin occupancy
           THEN <<NewMove(from, from + 16, white_playing)>> ELSE << >>)
       \o (IF ~white_playing /\ rank = 6 /\ (from - 16) \notin occupancy
           THEN <<NewMove(from, from - 16, white_playing)>> ELSE << >>)

\* 3.b Pawn motions: one step, then two steps from the starting rank.
PawnPushesFrom(g, from, white_playing) ==
    LET occupancy == Occupancy(g)
        rank == from \div 8
    IN (IF white_playing
        THEN (IF (from + 8) \notin occupancy
              THEN <<NewMove(from, from + 8, white_playing)>> ELSE << >>)
        ELSE (IF (from - 8) \notin occupancy
              THEN <<NewMove(from, from - 8, white_playing)>> ELSE << >>))
       \o (IF white_playing /\ rank = 1
              /\ (from + 8) \notin occupancy /\ (from + 16) \notin occupancy
           THEN <<NewMove(from, from + 16, white_playing)>> ELSE << >>)
       \o (IF ~white_playing /\ rank = 6
              /\ (from - 8) \notin occupancy /\ (from - 16) \notin occupancy
           THEN <<NewMove(from, from - 16, white_playing)>> ELSE << >>)

PawnPushMoves(g, white_playing) ==
    LET pieces == consume_bits(pieces_for_color(g.whites, g.pawns, white_playing))
    IN Flatten([i \in 1 .. Len(pieces) |-> PawnPushesFrom(g, pieces[i], white_playing)])

\* The moves along one ray: a Motion onto each empty square, then a capture
\* of the first occupied square if the other side holds it.
RayMoves(g, t, from, ray, white_playing) ==
    LET occupancy == Occupancy(g)
        blocked == {i \in 1 .. Len(ray) : ray[i] \in occupancy}
        n == IF blocked = {} THEN Len(ray)
             ELSE CHOOSE i \in blocked : \A j \in blocked : i <= j
        last == IF blocked = {} THEN n
                ELSE IF (ray[n] \in g.whites) # white_playing THEN n ELSE n - 1
    IN [i \in 1 .. last |->
           IF ray[i] \notin occupancy
           THEN NewMove(from, ray[i], white_playing)
           ELSE set_quality_from_scores(NewMove(from, ray[i], white_playing),
                                        t, type_at_index(g, ray[i]))]

\* ChessGame::fill_attacked_squares_from_sliding_piece; the range of direction
\* indices is lo .. hi - 1.
fill_attacked_squares_from_sliding_piece(g, pieces, t, lo, hi, white_playing) ==
    LET froms == consume_bits(pieces)
    IN Flatten([i \in 1 .. Len(froms) |->
           Flatten([d \in 1 .. (hi - lo) |->
               RayMoves(g, t, froms[i], SLIDING_ATTACK_MASKS[lo + d - 1][froms[i]],
                        white_playing)])])

\* A castle section that does not read the king-moved flags.
CastleMoves_IgnoreFlags(g, white_playing) ==
    LET occupancy == Occupancy(g)
        attacked == get_attacked_squares(g, ~white_playing)
    IN (IF white_playing
        THEN (IF 5 \notin occupancy /\ 6 \notin occupancy
                 /\ 4 \notin attacked /\ 5 \notin attacked /\ 6 \notin attacked
              THEN <<NewMove(4, 6, white_playing)>> ELSE << >>)
             \o (IF 3 \notin occupancy /\ 2 \notin occupancy /\ 1 \notin occupancy
                    /\ 4 \notin attacked /\ 3 \notin attacked /\ 2 \notin attacked
                 THEN <<NewMove(4, 2, white_playing)>> ELSE << >>)
        ELSE << >>)
       \o (IF ~white_playing
           THEN (IF 61 \notin occupancy /\ 62 \notin occupancy
                    /\ 60 \notin attacked /\ 61 \notin attacked /\ 62 \notin attacked
                 THEN <<NewMove(60, 62, white_playing)>> ELSE << >>)
                \o (IF 59 \notin occupancy /\ 58 \notin occupancy /\ 57 \notin occupancy
                       /\ 60 \notin attacked /\ 59 \notin attacked /\ 58 \notin attacked
                    THEN <<NewMove(60, 58, white_playing)>> ELSE << >>)
           ELSE << >>)

\* 7. Castle: the king move by two squares from e1 / e8.
CastleMoves(g, white_playing) ==
    LET occupancy == Occupancy(g)
        attacked == get_attacked_squares(g, ~white_playing)
    IN (IF white_playing /\ FLAG_WK_MOVED \notin g.flags
        THEN (IF 5 \notin occupancy /\ 6 \notin occupancy
                 /\ 4 \notin attacked /\ 5 \notin attacked /\ 6 \notin attacked
              THEN <<NewMove(4, 6, white_playing)>> ELSE << >>)
             \o (IF 3 \notin occupancy /\ 2 \notin occupancy /\ 1 \notin occupancy
                    /\ 4 \notin attacked /\ 3 \notin attacked /\ 2 \notin attacked
                 THEN <<NewMove(4, 2, white_playing)>> ELSE << >>)
        ELSE << >>)
       \o (IF ~white_playing /\ FLAG_BK_MOVED \notin g.flags
           THEN (IF 61 \notin occupancy /\ 62 \notin occupancy
                    /\ 60 \notin attacked /\ 61 \notin attacked /\ 62 \notin attacked
                 THEN <<NewMove(60, 62, white_playing)>> ELSE << >>)
                \o (IF 59 \notin occupancy /\ 58 \notin occupancy /\ 57 \notin occupancy
                       /\ 60 \notin attacked /\ 59 \notin attacked /\ 58 \notin attacked
                    THEN <<NewMove(60, 58, white_playing)>> ELSE << >>)
           ELSE << >>)

\* The moves ChessGame::update_move_container pushes, in push order.
GeneratedMoves(g, white_playing) ==
    KnightMoves(g, white_playing)
    \o KingMoves(g, white_playing)
    \o PawnAttackMoves(g, white_playing)
    \o PawnPushMoves(g, white_playing)
    \o fill_attacked_squares_from_sliding_piece(
           g, pieces_for_color(g.whites, g.rooks, white_playing), "Rook", 0, 4, white_playing)
    \o fill_attacked_squares_from_sliding_piece(
           g, pieces_for_color(g.whites, g.bishops, white_playing), "Bishop", 4, 8, white_playing)
    \o fill_attacked_squares_from_sliding_piece(
           g, pieces_for_color(g.whites, g.queens, white_playing), "Queen", 0, 8, white_playing)
    \o CastleMoves(g, white_playing)

(***************************************************************************)
(* SimpleMovesContainer: a vector of moves and a read index.               *)
(***************************************************************************)
SimpleNew == [moves |-> << >>, index |-> 0]

SimpleReset(c) == [moves |-> << >>, index |-> 0]

SimplePush(c, m) == [c EXCEPT !.moves = Append(@, m)]

SimpleCount(c) == Len(c.moves)

\* A generation that does not reset the container first.
update_move_container_NoReset(g, c, white_playing) ==
    [c EXCEPT !.moves = @ \o GeneratedMoves(g, white_playing)]

\* ChessGame::update_move_container on a SimpleMovesContainer: reset, then
\* push every generated move.
update_move_container(g, c, white_playing) ==
    [SimpleReset(c) EXCEPT !.moves = @ \o GeneratedMoves(g, white_playing)]

(***************************************************************************)
(* SmartMoveContainer: a max-heap of moves (std BinaryHeap), ordered by     *)
(* quality.  The heap is the vector of its elements; index i of the vector *)
(* is element i + 1 of the sequence.                                       *)
(***************************************************************************)
\* Ord for Move: moves compare by quality.
MoveLe(a, b) == QualityRank(a.quality) <= QualityRank(b.quality)

RECURSIVE sift_up(_, _, _, _)
\* BinaryHeap::sift_up: data has a hole at pos, elt is the element taken out
\* of it; the hole climbs while elt is greater than the parent.
sift_up(data, elt, start, pos) ==
    IF pos > start /\ ~MoveLe(elt, data[((pos - 1) \div 2) + 1])
    THEN sift_up([data EXCEPT ![pos + 1] = data[((pos - 1) \div 2) + 1]],
                 elt, start, (pos - 1) \div 2)
    ELSE [data EXCEPT ![pos + 1] = elt]

RECURSIVE sift_down_to_bottom(_, _, _)
\* BinaryHeap::sift_down_to_bottom: the hole descends to a leaf along the
\* greater children, then elt is sifted up from there.
sift_down_to_bottom(data, elt, hole) ==
    LET end == Len(data)
        child == 2 * hole + 1
        greater == IF MoveLe(data[child + 1], data[child + 2]) THEN child + 1 ELSE child
    IN IF child <= end - 2
       THEN sift_down_to_bottom([data EXCEPT ![hole + 1] = data[greater + 1]], elt, greater)
       ELSE IF child = end - 1
            THEN sift_up([data EXCEPT ![hole + 1] = data[child + 1]], elt, 0, child)
            ELSE sift_up(data, elt, 0, hole)

\* BinaryHeap::push
heap_push(data, item) == sift_up(Append(data, item), item, 0, Len(data))

\* BinaryHeap::pop on a non-empty heap: the greatest element and the heap left.
heap_pop(data) ==
    LET item == data[Len(data)]
        rest == SubSeq(data, 1, Len(data) - 1)
    IN IF rest = << >> THEN [move |-> item, data |-> rest]
       ELSE [move |-> rest[1], data |-> sift_down_to_bottom(rest, item, 0)]

SmartNew == << >>

\* SmartMoveContainer::reset
SmartReset(c) == << >>

\* SmartMoveContainer::push
SmartPush(c, m) == heap_push(c, m)

\* SmartMoveContainer::has_next
has_next(c) == Len(c) > 0

\* SmartMoveContainer::pop_next_move
pop_next_move(c) == heap_pop(c)

\* SmartMoveContainer::set_first_move
set_first_move(c, m) == heap_push(c, set_quality(m, "Principal"))

\* A killer move pushed with the quality it carries.
add_killer_move_NoRetag(c, m) == heap_push(c, m)

\* SmartMoveContainer::add_killer_move
add_killer_move(c, m) == heap_push(c, set_quality(m, "KillerMove"))

RECURSIVE PushAll(_, _)
\* The pushes of a sequence of moves, in order.
PushAll(c, ms) == IF ms = << >> THEN c ELSE PushAll(SmartPush(c, Head(ms)), Tail(ms))

\* ChessGame::update_move_container on a SmartMoveContainer.
smart_update_move_container(g, c, white_playing) ==
    PushAll(SmartReset(c), GeneratedMoves(g, white_playing))


(***************************************************************************)
(* Move application (game.rs).                                             *)
(***************************************************************************)
\* A shift amount outside 0..63 is reduced modulo 64 by the shift of an
\* optimised build (a checked build stops the program at that point).
BitIndex(at) == at % 64

\* ChessGame::apply_capture: clear the destination in every board word.
apply_capture(g, m) ==
    [g EXCEPT !.pawns = @ \ {m.to}, !.bishops = @ \ {m.to}, !.rooks = @ \ {m.to},
              !.knights = @ \ {m.to}, !.queens = @ \ {m.to}, !.kings = @ \ {m.to},
              !.whites = @ \ {m.to}]

\* The King arm of apply_move_unsafe: move the king, set the flags and, on a
\* move by two squares, move the rook and its colour bit.
ApplyKingMove(g, m) ==
    LET g1 == [g EXCEPT !.kings = (@ \ {m.from}) \cup {m.to},
                        !.flags = @ \cup {IF m.is_white THEN FLAG_WK_MOVED ELSE FLAG_BK_MOVED}]
        motion == m.to - m.from
        rook_from == BitIndex(IF motion = 2 THEN m.from + 3 ELSE m.from - 4)
        rook_to == BitIndex(IF motion = 2 THEN m.from + 1 ELSE m.from - 1)
    IN IF motion = 2 \/ motion = -2
       THEN [g1 EXCEPT !.flags = @ \cup {IF m.is_white THEN FLAG_WK_CASTLED
                                         ELSE FLAG_BK_CASTLED},
                       !.rooks = (@ \ {rook_from}) \cup {rook_to},
                       !.whites = IF m.is_white THEN (@ \ {rook_from}) \cup {rook_to} ELSE @]
       ELSE g1

\* apply_move_unsafe with a Pawn arm that never promotes.
apply_move_unsafe_NoPromotion(g, m) ==
    LET t == type_at_index(g, m.from)
        c == apply_capture(g, m)
        moved ==
            CASE t = "Pawn" -> [c EXCEPT !.pawns = (@ \ {m.from}) \cup {m.to}]
              [] t = "Bishop" -> [c EXCEPT !.bishops = (@ \ {m.from}) \cup {m.to}]
              [] t = "Knight" -> [c EXCEPT !.knights = (@ \ {m.from}) \cup {m.to}]
              [] t = "Rook" -> [c EXCEPT !.rooks = (@ \ {m.from}) \cup {m.to}]
              [] t = "Queen" -> [c EXCEPT !.queens = (@ \ {m.from}) \cup {m.to}]
              [] t = "King" -> ApplyKingMove(c, m)
              [] OTHER -> c
    IN IF t = "None" THEN g
       ELSE IF m.is_white
            THEN [moved EXCEPT !.whites = (@ \ {m.from}) \cup {m.to}]
            ELSE moved

\* ChessGame::apply_move_unsafe
apply_move_unsafe(g, m) ==
    LET t == type_at_index(g, m.from)
        c == apply_capture(g, m)
        moved ==
            CASE t = "Pawn" ->
                   IF m.to \div 8 = 7 \/ m.to \div 8 = 0
                   THEN [c EXCEPT !.pawns = @ \ {m.from}, !.queens = @ \cup {m.to}]
                   ELSE [c EXCEPT !.pawns = (@ \ {m.from}) \cup {m.to}]
              [] t = "Bishop" -> [c EXCEPT !.bishops = (@ \ {m.from}) \cup {m.to}]
              [] t = "Knight" -> [c EXCEPT !.knights = (@ \ {m.from}) \cup {m.to}]
              [] t = "Rook" -> [c EXCEPT !.rooks = (@ \ {m.from}) \cup {m.to}]
              [] t = "Queen" -> [c EXCEPT !.queens = (@ \ {m.from}) \cup {m.to}]
              [] t = "King" -> ApplyKingMove(c, m)
              [] OTHER -> c
    IN IF t = "None" THEN g
       ELSE IF m.is_white
            THEN [moved EXCEPT !.whites = (@ \ {m.from}) \cup {m.to}]
            ELSE moved

(***************************************************************************)
(* Move validation (game.rs), used by apply_move_safe.                     *)
(***************************************************************************)
\* Move::get_direction_increment
get_direction_increment(m) ==
    LET diff == m.to - m.from
        remain == m.from % 8
        min == m.from - remain
        max == m.from + (7 - remain)
    IN IF m.to >= min /\ m.to <= max
       THEN (IF diff > 0 THEN 1 ELSE -1)
       ELSE IF diff % 8 = 0 THEN (IF diff > 0 THEN 8 ELSE -8)
       ELSE IF diff % 9 = 0 THEN (IF diff > 0 THEN 9 ELSE -9)
       ELSE IF diff % 7 = 0 THEN (IF diff > 0 THEN 7 ELSE -7)
       ELSE 0

RECURSIVE FreeUntil(_, _, _, _)
\* The loop of is_move_over_free_squares from current_pos on.
FreeUntil(g, current_pos, to, direction) ==
    IF current_pos = to THEN TRUE
    ELSE IF has_piece_at(g, current_pos) THEN FALSE
    ELSE FreeUntil(g, current_pos + direction, to, direction)

\* ChessGame::is_move_over_free_squares
is_move_over_free_squares(g, m) ==
    FreeUntil(g, m.from + get_direction_increment(m), m.to, get_direction_increment(m))

\* ChessGame::is_pawn_move_valid
is_pawn_move_valid(g, m) ==
    IF (m.is_white /\ (m.from \div 8) > (m.to \div 8))
       \/ (~m.is_white /\ (m.from \div 8) < (m.to \div 8))
    THEN FALSE
    ELSE IF m.to = m.from + 16 /\ m.from \div 8 # 1 THEN FALSE
    ELSE IF m.to + 16 = m.from /\ m.from \div 8 # 6 THEN FALSE
    ELSE IF has_piece_at(g, m.to) THEN m.from % 8 # m.to % 8
    ELSE IF m.from % 8 # m.to % 8 THEN FALSE
    ELSE (m.to - m.from) \in {8, -8, -16, 16}

\* ChessGame::is_king_move_valid
is_king_move_valid(g, m) ==
    LET motion == m.to - m.from
        positions_to_check ==
            IF motion > 0 THEN {m.from + 1, m.from + 2}
            ELSE {m.from - 1, m.from - 2, m.from - 3}
    IN IF motion = 2 \/ motion = -2
       THEN /\ ~((m.is_white /\ FLAG_WK_MOVED \in g.flags)
                 \/ (~m.is_white /\ FLAG_BK_MOVED \in g.flags))
            /\ IF motion > 0 THEN BitIndex(m.from + 3) \in g.rooks
               ELSE BitIndex(m.from - 4) \in g.rooks
            /\ \A pos \in positions_to_check : BitIndex(pos) \notin Occupancy(g)
            /\ \A pos \in positions_to_check :
                   BitIndex(pos) \notin get_attacked_squares(g, ~m.is_white)
       ELSE motion \in {1, -1, 8, -8, 7, -7, 9, -9}

\* ChessGame::is_bishop_valid
is_bishop_valid(motion, x1, y1, x2, y2) ==
    IF motion % 7 = 0
    THEN (IF motion > 0 THEN x1 > x2 /\ y1 < y2 ELSE x1 < x2 /\ y1 > y2)
    ELSE IF motion % 9 = 0
    THEN (IF motion > 0 THEN x1 < x2 /\ y1 < y2 ELSE x1 > x2 /\ y1 > y2)
    ELSE FALSE

\* ChessGame::is_rook_valid
is_rook_valid(motion, m) ==
    LET remain == m.from % 8
        min == m.from - remain
        max == m.from + (7 - remain)
    IN IF m.to >= min /\ m.to <= max THEN TRUE ELSE motion % 8 = 0

\* ChessGame::is_destination_of_incorrect_color
is_destination_of_incorrect_color(g, m) ==
    has_piece_at(g, m.to) /\ ((m.to \in g.whites) = (m.from \in g.whites))

\* ChessGame::is_move_valid_for_type
is_move_valid_for_type(g, m, t) ==
    LET motion == m.to - m.from
        x1 == m.from % 8
        y1 == m.from \div 8
        x2 == m.to % 8
        y2 == m.to \div 8
    IN IF is_destination_of_incorrect_color(g, m) THEN FALSE
       ELSE IF ~(t = "Knight" \/ t = "King" \/ is_move_over_free_squares(g, m)) THEN FALSE
       ELSE CASE t = "Pawn" -> is_pawn_move_valid(g, m)
              [] t = "Bishop" -> is_bishop_valid(motion, x1, y1, x2, y2)
              [] t = "Rook" -> is_rook_valid(motion, m)
              [] t = "Queen" -> is_bishop_valid(motion, x1, y1, x2, y2) \/ is_rook_valid(motion, m)
              [] t = "Knight" ->
                   CASE motion \in {17, 10} -> x2 > x1 /\ y2 > y1
                     [] motion \in {15, 6} -> x2 < x1 /\ y2 > y1
                     [] motion \in {-10, -17} -> x2 < x1 /\ y2 < y1
                     [] motion \in {-15, -6} -> x2 > x1 /\ y2 < y1
                     [] OTHER -> FALSE
              [] t = "King" -> is_king_move_valid(g, m)

\* ChessGame::is_move_valid
is_move_valid(g, m) ==
    IF type_at_index(g, m.from) = "None" THEN FALSE
    ELSE is_move_valid_for_type(g, m, type_at_index(g, m.from))

\* ChessGame::apply_move_safe: the returned flag and the position afterwards.
apply_move_safe(g, m) ==
    IF is_move_valid(g, m)
    THEN [ok |-> TRUE, game |-> apply_move_unsafe(g, m)]
    ELSE [ok |-> FALSE, game |-> g]

(***************************************************************************)
(* Static evaluation (game.rs).                                            *)
(***************************************************************************)
\* ChessGame::score.  One container serves both calls of the generator.
score(g) ==
    LET material ==
              Cardinality(g.pawns \cap g.whites) * 1
            + Cardinality((g.bishops \cup g.knights) \cap g.whites) * 3
            + Cardinality(g.rooks \cap g.whites) * 5
            + Cardinality(g.queens \cap g.whites) * 10
            + Cardinality(g.kings \cap g.whites) * 1000
            - Cardinality((g.bishops \cup g.knights) \ g.whites) * 3
            - Cardinality(g.pawns \ g.whites) * 1
            - Cardinality(g.rooks \ g.whites) * 5
            - Cardinality(g.queens \ g.whites) * 10
            - Cardinality(g.kings \ g.whites) * 1000
        c1 == update_move_container(g, SimpleNew, TRUE)
        c2 == update_move_container(g, c1, FALSE)
    IN material * 20 + SimpleCount(c1) - SimpleCount(c2)

(***************************************************************************)
(* AlphaBetaEngine (engine/src/alpha_beta.rs).  ScoreType is a 64-bit      *)
(* integer; a score is the record [w, v]: w = 0 for the value v, w = -1    *)
(* for ScoreType::MIN and w = 1 for ScoreType::MAX, which are beyond every *)
(* value v the model computes.  An Option is a sequence of length 0 or 1.  *)
(***************************************************************************)
Fin(v) == [w |-> 0, v |-> v]

\* ScoreType::MIN, ScoreType::MAX
SCORE_MIN == [w |-> -1, v |-> 0]

SCORE_MAX == [w |-> 1, v |-> 0]

\* i32::MIN as ScoreType, i32::MAX as ScoreType
I32_MIN == Fin((-2147483647) - 1)

I32_MAX == Fin(2147483647)

ScoreLt(a, b) == a.w < b.w \/ (a.w = 0 /\ b.w = 0 /\ a.v < b.v)

ScoreLe(a, b) == a = b \/ ScoreLt(a, b)

ScoreMax(a, b) == IF ScoreLt(a, b) THEN b ELSE a

ScoreMin(a, b) == IF ScoreLt(a, b) THEN a ELSE b

None == << >>

Some(x) == <<x>>

EmptyMap == [x \in {} |-> 0]

\* AlphaBetaEngine::new
AlphaBetaEngine_new(depth, extra_depth) ==
    [depth |-> depth,
     extra_depth |-> extra_depth,
     transposition_table |-> EmptyMap,
     killer_moves |-> EmptyMap,
     panicked |-> FALSE]

\* AlphaBetaEngine::reset_killer_moves
reset_killer_moves(e) ==
    [e EXCEPT !.killer_moves = [i \in 0 .. (e.depth + e.extra_depth - 1) |-> << >>]]

\* AlphaBetaEngine::set_engine_depth
set_engine_depth(e, depth, extra_depth) ==
    reset_killer_moves([e EXCEPT !.depth = depth, !.extra_depth = extra_depth])

\* A key that leaves the colours out.
TTKey_NoWhites(g) == [g EXCEPT !.whites = {}]

\* The key of a position in the transposition table: the position itself.
TTKey(g) == g

\* A terminal test with strict comparisons.
IsTerminalNode_Strict(e, g, depth, is_last_move_a_capture) ==
    \/ ~is_last_move_a_capture /\ depth > e.depth
    \/ is_last_move_a_capture /\ depth > e.depth + e.extra_depth
    \/ is_finished(g)

\* A terminal test that lets every move extend the search.
IsTerminalNode_ExtraAlways(e, g, depth, is_last_move_a_capture) ==
    \/ depth >= e.depth + e.extra_depth
    \/ is_finished(g)

\* The terminal test of alpha_beta_search.
IsTerminalNode(e, g, depth, is_last_move_a_capture) ==
    \/ ~is_last_move_a_capture /\ depth >= e.depth
    \/ is_last_move_a_capture /\ depth >= e.depth + e.extra_depth
    \/ is_finished(g)

\* transposition_table.entry(game).or_insert_with(|| game.score())
CacheScore(e, g) ==
    IF TTKey(g) \in DOMAIN e.transposition_table THEN e
    ELSE [e EXCEPT !.transposition_table = @ @@ (TTKey(g) :> score(g))]

\* The killer moves a node at this depth adds to its container: at most two.
KillersAt(e, depth) ==
    IF depth \in DOMAIN e.killer_moves
    THEN SubSeq(e.killer_moves[depth], 1, Min(2, Len(e.killer_moves[depth])))
    ELSE << >>

RECURSIVE AddKillers(_, _)
AddKillers(c, ks) ==
    IF ks = << >> THEN c ELSE AddKillers(add_killer_move(c, Head(ks)), Tail(ks))

\* if let Some(first_move) = first_move_to_evaluate { set_first_move }
Seeded(c, first_move) ==
    IF first_move # None THEN set_first_move(c, first_move[1]) ELSE c

\* The container of a node before its loop: the generated moves, the seed
\* and the killer moves of the depth.
NodeContainer(e, g, white_to_play, depth, first_move) ==
    AddKillers(Seeded(smart_update_move_container(g, SmartNew, white_to_play), first_move),
               KillersAt(e, depth))

\* The return of a terminal node, its score in the table of e.
TerminalResult(e, g) ==
    [leaf |-> TRUE,
     engine |-> e,
     result |-> [score |-> Fin(e.transposition_table[TTKey(g)]), best_move |-> None],
     frame |-> << >>]

\* An initial score of 0 for both sides.
InitialScore_Zero(white_to_play) == Fin(0)

\* let mut score = if white_to_play { ScoreType::MIN } else { ScoreType::MAX }
InitialScore(white_to_play) == IF white_to_play THEN SCORE_MIN ELSE SCORE_MAX

\* alpha_beta_search up to its loop: the result of a terminal node (leaf),
\* else the frame of the call.
Call(e, g, white_to_play, depth, alpha, beta, is_last_move_a_capture, first_move) ==
    IF IsTerminalNode(e, g, depth, is_last_move_a_capture)
    THEN TerminalResult(CacheScore(e, g), g)
    ELSE [leaf |-> FALSE,
          engine |-> e,
          result |-> << >>,
          frame |-> [game |-> g,
                     white_to_play |-> white_to_play,
                     depth |-> depth,
                     alpha |-> alpha,
                     beta |-> beta,
                     is_last_move_a_capture |-> is_last_move_a_capture,
                     container |-> NodeContainer(e, g, white_to_play, depth, first_move),
                     score |-> InitialScore(white_to_play),
                     best_move |-> None,
                     m |-> None,
                     cutoff |-> FALSE]]

\* killer_moves.get_mut(&depth).expect(..).push(m)
PushKiller(e, depth, m) ==
    IF depth \in DOMAIN e.killer_moves
    THEN [e EXCEPT !.killer_moves[depth] = Append(@, m)]
    ELSE [e EXCEPT !.panicked = TRUE]

\* The body of the loop of alpha_beta_search after the recursive call on
\* move m returned result: the frame and the engine after it.
Absorb(e, f, m, result) ==
    IF f.white_to_play
    THEN LET better == ScoreLt(f.score, result.score)
             sc == IF better THEN result.score ELSE f.score
             bm == IF better THEN Some(m) ELSE f.best_move
             a == ScoreMax(f.alpha, sc)
             cut == ScoreLe(f.beta, sc)
         IN [frame |-> [f EXCEPT !.score = sc, !.best_move = bm, !.alpha = a,
                                 !.cutoff = cut],
             engine |-> IF cut THEN PushKiller(e, f.depth, m) ELSE e]
    ELSE LET better == ScoreLt(result.score, f.score)
             sc == IF better THEN result.score ELSE f.score
             bm == IF better THEN Some(m) ELSE f.best_move
             b == ScoreMin(f.beta, sc)
             cut == ScoreLe(sc, f.alpha)
         IN [frame |-> [f EXCEPT !.score = sc, !.best_move = bm, !.beta = b,
                                 !.cutoff = cut],
             engine |-> e]

\* A driver that does not hand the best move over to the next iteration.
NextSeed_None(result) == None

\* IterativeDeepeningEngine::find_best_move: the seed of the next iteration.
NextSeed(result) == result.best_move

(***************************************************************************)
(* Positions the operations are exercised on: the standard setup, the      *)
(* positions of the repository's tests and of the end-to-end scenarios.    *)
(***************************************************************************)
FenBlockedPawns ==
    << <<"4", "k", "3">>, <<"4", "p", "3">>, <<"4", "n", "3">>, <<"8">>,
       <<"8">>, <<"4", "N", "3">>, <<"4", "P", "3">>, <<"4", "K", "3">> >>

FenPawnJumping1 ==
    << <<"4", "k", "3">>, <<"4", "p", "3">>, <<"8">>, <<"8">>,
       <<"8">>, <<"8">>, <<"4", "P", "3">>, <<"4", "K", "3">> >>

FenPawnJumping2 ==
    << <<"8">>, <<"8">>, <<"4", "p", "3">>, <<"8">>,
       <<"8">>, <<"4", "P", "3">>, <<"8">>, <<"8">> >>

FenSmallCastle ==
    << <<"4", "k", "2", "r">>, <<"4", "p", "p", "p", "p">>, <<"8">>, <<"8">>,
       <<"8">>, <<"8">>, <<"4", "P", "P", "P", "P">>, <<"4", "K", "2", "R">> >>

FenEvaluation1 ==
    << <<"8">>, <<"8">>, <<"8">>, <<"8">>,
       <<"8">>, <<"1", "n", "6">>, <<"2", "p", "5">>, <<"N", "7">> >>

FenEvaluation2 ==
    << <<"8">>, <<"8">>, <<"8">>, <<"8">>,
       <<"8">>, <<"1", "q", "6">>, <<"8">>, <<"N", "7">> >>

FenEvaluation3 ==
    << <<"8">>, <<"8">>, <<"3", "p", "1", "b", "2">>, <<"4", "B", "3">>,
       <<"3", "q", "1", "P", "2">>, <<"8">>, <<"8">>, <<"8">> >>

FenBackRank ==
    << <<"6", "k", "1">>, <<"4", "R", "p", "p", "p">>, <<"8">>, <<"8">>,
       <<"8">>, <<"8">>, <<"5", "P", "P", "P">>, <<"6", "K", "1">> >>

FenRooksAndKings ==
    << <<"r", "3", "k", "2", "r">>, <<"8">>, <<"8">>, <<"8">>,
       <<"8">>, <<"8">>, <<"8">>, <<"R", "3", "K", "2", "R">> >>

FenPromotion ==
    << <<"3", "n", "4">>, <<"4", "P", "2", "k">>, <<"8">>, <<"8">>,
       <<"8">>, <<"8">>, <<"1", "p", "4", "K", "1">>, <<"B", "7">> >>

FenCornerKing ==
    << <<"7", "k">>, <<"8">>, <<"8">>, <<"8">>,
       <<"8">>, <<"6", "b", "1">>, <<"4", "P", "p", "2">>, <<"7", "K">> >>

\* Scenario 1, built with set_piece as test_simple_engine1 does.
\* FenPawnJumping1 with the colours exchanged.
FenPawnJumping1Swapped ==
    << <<"4", "K", "3">>, <<"4", "P", "3">>, <<"8">>, <<"8">>,
       <<"8">>, <<"8">>, <<"4", "p", "3">>, <<"4", "k", "3">> >>

Scenario1 ==
    set_piece(set_piece(set_piece(set_piece(set_piece(set_piece(empty,
        "Pawn", TRUE, 28), "Pawn", TRUE, 12), "Pawn", FALSE, 35), "Pawn", FALSE, 51),
        "King", TRUE, 8), "King", FALSE, 48)

\* A white king that has castled short, a bishop left on c1.
FenCastledKing ==
    << <<"4", "k", "3">>, <<"8">>, <<"8">>, <<"8">>,
       <<"8">>, <<"8">>, <<"8">>, <<"2", "B", "2", "R", "K", "1">> >>

\* Positions as the constructors leave them (flags = 0) ...
FenGames ==
    {standard_game, Scenario1, from_fen(FenSmallCastle), from_fen(FenBackRank),
     from_fen(FenRooksAndKings), from_fen(FenPromotion), from_fen(FenCornerKing),
     from_fen(FenCastledKing)}

\* ... and positions on which the tests call block_castling.
BlockedGames ==
    {block_castling(from_fen(b)) :
        b \in {FenBlockedPawns, FenPawnJumping1, FenPawnJumping2, FenEvaluation1,
               FenEvaluation2, FenEvaluation3, FenRooksAndKings, FenPromotion}}
    \cup {block_castling(standard_game)}

InitialGames == FenGames \cup BlockedGames

\* The number of moves applied to an initial position.
MaxMoves == 1

\* Moves a UCI `position` line may list: square pairs off the wire, applied
\* with the colour whose turn it is.
UciMoves == {<<12, 28>>, <<52, 36>>, <<4, 6>>, <<60, 62>>, <<6, 21>>, <<6, 4>>}

\* Moves handed to apply_move_safe.
SafeMoves ==
    {NewMove(12, 28, TRUE), NewMove(12, 13, TRUE), NewMove(12, 4, FALSE), NewMove(10, 11, FALSE),
     NewMove(4, 28, TRUE), NewMove(7, 8, TRUE), NewMove(6, 31, TRUE), NewMove(52, 36, FALSE),
     NewMove(0, 9, TRUE), NewMove(36, 27, TRUE), NewMove(12, 22, TRUE)}

(***************************************************************************)
(* State.                                                                  *)
(***************************************************************************)
VARIABLES
    game,           \* the position
    white_to_move,  \* the side to move
    nmoves,         \* moves applied so far
    container,      \* a SimpleMovesContainer, reused from call to call
    last,           \* the last operation: its name, arguments and results
    smart,          \* a SmartMoveContainer
    inserted,       \* the moves given to it since the last reset, and how
    popped,         \* the moves it returned since the last reset
    settings,       \* the depth and extra depth the engines are built with
    engines,        \* the AlphaBetaEngine instances: plain, fresh, id
    active,         \* the instance that runs the current search
    stack,          \* the frames of alpha_beta_search, the root first
    pc,             \* "idle", "iterate" (in the driver's loop) or "run"
    request,        \* the call of find_best_move in progress
    driver,         \* depth and first_move of IterativeDeepeningEngine
    idlog,          \* the iterations completed by the call in progress
    results,        \* the calls completed, with their results
    nsearch,        \* the number of calls started
    rootfirst,      \* the first move the root of the current search explored
    lastcall,       \* the last call of alpha_beta_search and how it began
    uci             \* the UciPlayer: messages handled, the last one, its answer

posVars == <<game, white_to_move, nmoves, container, last>>
contVars == <<smart, inserted, popped>>
engVars == <<settings, engines, active, stack, pc, request, driver, idlog, results,
             nsearch, rootfirst, lastcall>>
uciVars == <<uci>>
vars == <<posVars, contVars, engVars, uciVars>>

\* A message of the UCI protocol as UciPlayer::handle_message gets it.
UciMessage(kind, startpos, fen, moves) ==
    [kind |-> kind, startpos |-> startpos, fen |-> fen, moves |-> moves]

\* An answer of handle_message; move is <<from, to>> for a BestMove.
Answer(kind, move) == [kind |-> kind, move |-> move]

\* The UciPlayer has handled no message.
UciIdle ==
    uci = [handled |-> 0, message |-> UciMessage("none", FALSE, << >>, << >>),
           answer |-> Answer("None", << >>), searching |-> FALSE]

\* The record of a call of alpha_beta_search on engine e that began as c
\* (see Call): its arguments, whether the position was in the table of e,
\* whether it returned before generating moves and, if so, its result.
CallRecord(e, g, white_to_play, depth, is_last_move_a_capture, c) ==
    [made |-> TRUE,
     game |-> g,
     white_to_play |-> white_to_play,
     depth |-> depth,
     is_last_move_a_capture |-> is_last_move_a_capture,
     limits |-> <<e.depth, e.extra_depth>>,
     cached |-> TTKey(g) \in DOMAIN e.transposition_table,
     generated |-> ~c.leaf,
     moves |-> IF c.leaf THEN 0 ELSE Len(c.frame.container),
     result |-> IF c.leaf THEN Some(c.result) ELSE None]

\* No call of alpha_beta_search was made.
NoCall ==
    [made |-> FALSE, game |-> empty, white_to_play |-> TRUE, depth |-> 0,
     is_last_move_a_capture |-> FALSE, limits |-> <<0, 0>>, cached |-> FALSE,
     generated |-> FALSE, moves |-> 0, result |-> None]

\* No call of find_best_move.
NoRequest == [kind |-> "none", root |-> [game |-> empty, white |-> TRUE]]

\* No search is in progress and none was made, no message was handled.
EngIdle ==
    /\ active = "plain"
    /\ stack = << >>
    /\ pc = "idle"
    /\ request = NoRequest
    /\ driver = [depth |-> 0, first_move |-> None]
    /\ idlog = << >>
    /\ results = << >>
    /\ nsearch = 0
    /\ rootfirst = None
    /\ lastcall = NoCall
    /\ UciIdle

\* The engines are not in use.
EngOff ==
    /\ EngIdle
    /\ settings = [depth |-> 0, extra_depth |-> 0]
    /\ engines = [plain |-> AlphaBetaEngine_new(0, 0),
                  fresh |-> AlphaBetaEngine_new(0, 0),
                  id |-> AlphaBetaEngine_new(6, 0)]

\* The container is not in use.
ContIdle == smart = SmartNew /\ inserted = << >> /\ popped = << >>

NoMove == NewMove(0, 0, TRUE)

Last(op, white, m, ok, value, before) ==
    [op |-> op, white |-> white, move |-> m, ok |-> ok, value |-> value, before |-> before]

\* No query has been made on the current position yet.
Fresh == last.op \in {"new", "apply", "uci"} \/ (last.op = "safe" /\ last.ok)

Init ==
    /\ game \in InitialGames
    /\ white_to_move \in BOOLEAN
    /\ nmoves = 0
    /\ container = SimpleNew
    /\ last = Last("new", TRUE, NoMove, TRUE, 0, game)
    /\ ContIdle
    /\ EngOff

\* update_move_container(&mut container, side) on the current position.
UpdateMoveContainer(side) ==
    /\ Fresh \/ last.op = "generate"
    /\ container' = update_move_container(game, container, side)
    /\ last' = Last("generate", side, NoMove, TRUE, 0, game)
    /\ UNCHANGED <<game, white_to_move, nmoves>>
    /\ UNCHANGED <<contVars, engVars, uciVars>>

\* The search applies a generated move of the side to move to a clone of the
\* position; the node reached gets a container of its own.
ApplyGeneratedMove ==
    /\ Fresh
    /\ nmoves < MaxMoves
    /\ \E i \in 1 .. Len(GeneratedMoves(game, white_to_move)) :
          LET m == GeneratedMoves(game, white_to_move)[i]
          IN /\ game' = apply_move_unsafe(game, m)
             /\ last' = Last("apply", white_to_move, m, TRUE, 0, game)
    /\ white_to_move' = ~white_to_move
    /\ nmoves' = nmoves + 1
    /\ container' = SimpleNew
    /\ UNCHANGED <<contVars, engVars, uciVars>>

\* One step of UciPlayer::play_moves: the wire move is applied unchecked.
PlayUciMove ==
    /\ Fresh
    /\ nmoves < MaxMoves
    /\ \E mv \in UciMoves :
          LET m == NewMove(mv[1], mv[2], white_to_move)
          IN /\ game' = apply_move_unsafe(game, m)
             /\ last' = Last("uci", white_to_move, m, TRUE, 0, game)
    /\ white_to_move' = ~white_to_move
    /\ nmoves' = nmoves + 1
    /\ container' = SimpleNew
    /\ UNCHANGED <<contVars, engVars, uciVars>>

\* apply_move_safe(m)
ApplyMoveSafe ==
    /\ Fresh
    /\ \E m \in SafeMoves :
          LET r == apply_move_safe(game, m)
          IN /\ game' = r.game
             /\ last' = Last("safe", m.is_white, m, r.ok, 0, game)
             /\ nmoves' = IF r.ok THEN nmoves + 1 ELSE nmoves
             /\ r.ok => nmoves < MaxMoves
             /\ container' = IF r.ok THEN SimpleNew ELSE container
    /\ UNCHANGED white_to_move
    /\ UNCHANGED <<contVars, engVars, uciVars>>

\* score()
Score ==
    /\ Fresh
    /\ last' = Last("score", TRUE, NoMove, TRUE, score(game), game)
    /\ UNCHANGED <<game, white_to_move, nmoves, container>>
    /\ UNCHANGED <<contVars, engVars, uciVars>>

Next ==
    \/ \E side \in BOOLEAN : UpdateMoveContainer(side)
    \/ ApplyGeneratedMove
    \/ PlayUciMove
    \/ ApplyMoveSafe
    \/ Score

Spec == Init /\ [][Next]_vars

(***************************************************************************)
(* The SmartMoveContainer on its own: populated after a reset, then popped.*)
(***************************************************************************)
\* The number of moves given to the container after a reset.
MaxInserted == 3

\* The position is not in use.
PosIdle ==
    /\ game = empty
    /\ white_to_move = TRUE
    /\ nmoves = 0
    /\ container = SimpleNew
    /\ last = Last("new", TRUE, NoMove, TRUE, 0, empty)

\* The k-th move given to the container goes from square k to square k + 1,
\* so that a popped move tells which insertion it comes from.
KthMove(q) == set_quality(NewMove(Len(inserted), Len(inserted) + 1, TRUE), q)

ContInit == PosIdle /\ ContIdle /\ EngOff

\* reset()
ContainerReset ==
    /\ inserted # << >>
    /\ smart' = SmartReset(smart)
    /\ inserted' = << >>
    /\ popped' = << >>
    /\ UNCHANGED <<posVars, engVars, uciVars>>

\* push(m), with a quality stamped by the generator
ContainerPush ==
    /\ popped = << >>
    /\ Len(inserted) < MaxInserted
    /\ \E q \in {"Motion", "LowCapture", "EqualCapture", "GoodCapture"} :
          /\ smart' = SmartPush(smart, KthMove(q))
          /\ inserted' = Append(inserted, [move |-> KthMove(q), how |-> "push"])
    /\ UNCHANGED <<popped, posVars, engVars, uciVars>>

\* set_first_move(m), whatever quality m carries
ContainerSetFirstMove ==
    /\ popped = << >>
    /\ Len(inserted) < MaxInserted
    /\ \E q \in {"Motion", "GoodCapture"} :
          /\ smart' = set_first_move(smart, KthMove(q))
          /\ inserted' = Append(inserted, [move |-> KthMove(q), how |-> "first"])
    /\ UNCHANGED <<popped, posVars, engVars, uciVars>>

\* add_killer_move(m), whatever quality m carries
ContainerAddKillerMove ==
    /\ popped = << >>
    /\ Len(inserted) < MaxInserted
    /\ \E q \in {"Motion", "LowCapture"} :
          /\ smart' = add_killer_move(smart, KthMove(q))
          /\ inserted' = Append(inserted, [move |-> KthMove(q), how |-> "killer"])
    /\ UNCHANGED <<popped, posVars, engVars, uciVars>>

\* pop_next_move(), called while has_next()
ContainerPop ==
    /\ has_next(smart)
    /\ smart' = pop_next_move(smart).data
    /\ popped' = Append(popped, pop_next_move(smart).move)
    /\ UNCHANGED <<inserted, posVars, engVars, uciVars>>

ContNext ==
    \/ ContainerReset
    \/ ContainerPush
    \/ ContainerSetFirstMove
    \/ ContainerAddKillerMove
    \/ ContainerPop

SpecContainer == ContInit /\ [][ContNext]_vars

\* How the popped move number i was given to the container.
HowPopped(i) == inserted[popped[i].from + 1].how

\* C4: after a reset and any sequence of push, set_first_move and
\* add_killer_move, the successive pops have non-increasing quality; a move
\* given to set_first_move is popped before every other move, one given to
\* add_killer_move before every capture and motion; has_next is false exactly
\* when all inserted moves have been popped.
C4_ContainerOrdering ==
    /\ \A i \in 1 .. Len(popped) : \A j \in (i + 1) .. Len(popped) :
          /\ QualityRank(popped[i].quality) >= QualityRank(popped[j].quality)
          /\ HowPopped(j) = "first" => HowPopped(i) = "first"
          /\ HowPopped(j) = "killer" => HowPopped(i) \in {"first", "killer"}
          /\ popped[i].from # popped[j].from
    /\ \A i \in 1 .. Len(popped) : popped[i].from \in 0 .. (Len(inserted) - 1)
    /\ has_next(smart) <=> Len(popped) < Len(inserted)

\* All of a first move given as a Motion, a killer move and a capture pushed
\* before them have been popped, the first move first.
C4_Witness ==
    /\ Len(inserted) = 3
    /\ Len(popped) = 3
    /\ ~has_next(smart)
    /\ inserted[1].how = "push" /\ inserted[1].move.quality = "GoodCapture"
    /\ inserted[2].how = "killer"
    /\ inserted[3].how = "first" /\ inserted[3].move.quality = "Motion"
    /\ popped[1].from = 2


(***************************************************************************)
(* The searches: find_best_move of an AlphaBetaEngine kept from call to    *)
(* call ("plain"), of one built for the call ("fresh"), and of an          *)
(* IterativeDeepeningEngine ("id").  A search is the stack of the frames   *)
(* of alpha_beta_search; a step of it is one turn of the loop of the top   *)
(* frame or its return.                                                    *)
(***************************************************************************)
\* The number of calls of find_best_move.
MaxSearches == 3

\* The depth up to which the model follows the driver's loop.
MaxDepth == 3

\* IterativeDeepeningEngine::find_best_move: let initial_depth = 1
initial_depth == 1

\* The depth settings (depth, extra_depth) the engines are built with.
EngineSettings == {<<2, 1>>, <<3, 0>>}

\* The positions searched and the side to play.
\* The position searched by every kind of call, white to play ...
RootA == [game |-> block_castling(from_fen(FenPawnJumping1)), white |-> TRUE]

\* ... and the one with the colours exchanged, black to play, searched by
\* the kept engine between two searches of the first.
RootB == [game |-> block_castling(from_fen(FenPawnJumping1Swapped)), white |-> FALSE]

Roots == {RootA, RootB}

\* A position with castling rights left, black to play, searched by an
\* engine built for the call.
RootC == [game |-> from_fen(FenSmallCastle), white |-> FALSE]

EngInit ==
    /\ PosIdle
    /\ ContIdle
    /\ EngIdle
    /\ \E s \in EngineSettings :
          /\ settings = [depth |-> s[1], extra_depth |-> s[2]]
          /\ engines = [plain |-> AlphaBetaEngine_new(s[1], s[2]),
                        fresh |-> AlphaBetaEngine_new(s[1], s[2]),
                        id |-> AlphaBetaEngine_new(6, 0)]

\* Engine::find_best_move of AlphaBetaEngine: the call of alpha_beta_search
\* on the root after the reset of the killer moves.
RootCall(e, root, first_move) ==
    Call(e, root.game, root.white, 0, I32_MIN, I32_MAX, FALSE, first_move)

\* alpha_beta_search called on the root of request req with the full window,
\* on engine e standing for the instance named which.
StartCall(which, e, req) ==
    /\ pc = "idle"
    /\ nsearch < MaxSearches
    /\ nsearch' = nsearch + 1
    /\ active' = which
    /\ request' = req
    /\ rootfirst' = None
    /\ \E c \in {RootCall(e, req.root, None)} :
          /\ engines' = [engines EXCEPT ![which] = c.engine]
          /\ lastcall' = CallRecord(e, req.root.game, req.root.white, 0, FALSE, c)
          /\ IF c.leaf
             THEN /\ stack' = << >>
                  /\ pc' = "idle"
                  /\ results' = Append(results, [request |-> req, result |-> c.result])
             ELSE /\ stack' = <<c.frame>>
                  /\ pc' = "run"
                  /\ UNCHANGED results
    /\ UNCHANGED <<driver, idlog, settings, posVars, contVars, uciVars>>

\* find_best_move on the engine named which, for request req: the search
\* after the reset of the killer moves.
StartSearch(which, e, req) == StartCall(which, reset_killer_moves(e), req)

\* find_best_move on the AlphaBetaEngine kept from call to call.
FindBestMovePlain ==
    \E r \in Roots : StartSearch("plain", engines.plain, [kind |-> "plain", root |-> r])

\* AlphaBetaEngine::new(depth, extra_depth).find_best_move
FindBestMoveFresh ==
    \E r \in {RootA, RootC} :
        StartSearch("fresh", AlphaBetaEngine_new(settings.depth, settings.extra_depth),
                    [kind |-> "fresh", root |-> r])

\* IterativeDeepeningEngine::find_best_move(root.game, root.white) up to its
\* loop.
StartDriver(root) ==
    /\ pc = "idle"
    /\ request' = [kind |-> "id", root |-> root]
    /\ nsearch' = nsearch + 1
    /\ active' = "id"
    /\ engines' = [engines EXCEPT !.id = AlphaBetaEngine_new(6, 0)]
    /\ driver' = [depth |-> initial_depth, first_move |-> None]
    /\ idlog' = << >>
    /\ pc' = "iterate"
    /\ stack' = << >>
    /\ rootfirst' = None
    /\ UNCHANGED <<results, settings, lastcall>>

\* A call of IterativeDeepeningEngine::find_best_move.
FindBestMoveID ==
    /\ nsearch < MaxSearches
    /\ StartDriver(RootA)
    /\ UNCHANGED <<posVars, contVars, uciVars>>

\* The end of one iteration of the loop of IterativeDeepeningEngine, with
\* the result of its search: return it at the last depth, else go on.
EndIteration(result) ==
    /\ idlog' = Append(idlog, [depth |-> driver.depth,
                                seed |-> driver.first_move,
                                explored |-> rootfirst',
                                result |-> result])
    /\ IF driver.depth = settings.depth
       THEN /\ results' = Append(results, [request |-> request, result |-> result])
            /\ pc' = "idle"
            /\ UNCHANGED driver
       ELSE /\ driver' = [depth |-> driver.depth + 1, first_move |-> NextSeed(result)]
            /\ pc' = "iterate"
            /\ UNCHANGED results

\* One turn of the loop of IterativeDeepeningEngine up to the loop of the
\* search it starts.
Iterate ==
    /\ pc = "iterate"
    /\ driver.depth <= MaxDepth
    /\ \E c \in {RootCall(set_engine_depth(engines.id, driver.depth, settings.extra_depth),
                           request.root, driver.first_move)} :
          /\ engines' = [engines EXCEPT !.id = c.engine]
          /\ lastcall' = CallRecord(set_engine_depth(engines.id, driver.depth,
                                                     settings.extra_depth),
                                    request.root.game, request.root.white, 0, FALSE, c)
          /\ IF c.leaf
             THEN /\ stack' = << >>
                  /\ rootfirst' = None
                  /\ EndIteration(c.result)
             ELSE /\ stack' = <<c.frame>>
                  /\ rootfirst' = None
                  /\ pc' = "run"
                  /\ UNCHANGED <<driver, idlog, results>>
    /\ UNCHANGED <<active, request, nsearch, settings, posVars, contVars, uciVars>>

\* The recursive call of the top frame f on the move p.move it popped: the
\* frame left on top with the engine, or the frame of the child to push.
Recurse(e, f, p) ==
    LET f1 == [f EXCEPT !.container = p.data, !.m = Some(p.move)]
    IN \E c \in {Call(e, apply_move_unsafe(f.game, p.move), ~f.white_to_play,
                       f.depth + 1, f.alpha, f.beta, is_capture(p.move), None)} :
       /\ lastcall' = CallRecord(e, apply_move_unsafe(f.game, p.move), ~f.white_to_play,
                                 f.depth + 1, is_capture(p.move), c)
       /\ IF c.leaf
          THEN \E a \in {Absorb(c.engine, f1, p.move, c.result)} :
                  /\ stack' = [stack EXCEPT ![Len(stack)] = a.frame]
                  /\ engines' = [engines EXCEPT ![active] = a.engine]
          ELSE /\ stack' = Append([stack EXCEPT ![Len(stack)] = f1], c.frame)
               /\ engines' = [engines EXCEPT ![active] = c.engine]

\* One turn of the loop of the top frame: pop a move, apply it, search the
\* child; a terminal child returns at once.
Explore ==
    /\ pc = "run"
    /\ ~engines[active].panicked
    /\ ~stack[Len(stack)].cutoff
    /\ has_next(stack[Len(stack)].container)
    /\ \E p \in {pop_next_move(stack[Len(stack)].container)} :
          /\ rootfirst' = IF Len(stack) = 1 /\ rootfirst = None THEN Some(p.move)
                          ELSE rootfirst
          /\ Recurse(engines[active], stack[Len(stack)], p)
    /\ UNCHANGED <<active, pc, request, driver, idlog, results, nsearch, settings,
                   posVars, contVars, uciVars>>

\* The return of the top frame to its caller.
Return ==
    /\ pc = "run"
    /\ ~engines[active].panicked
    /\ \E f \in {stack[Len(stack)]} :
       \E result \in {[score |-> f.score, best_move |-> f.best_move]} :
          /\ f.cutoff \/ ~has_next(f.container)
          /\ IF Len(stack) > 1
             THEN \E a \in {Absorb(engines[active], stack[Len(stack) - 1],
                                    stack[Len(stack) - 1].m[1], result)} :
                     /\ stack' = Append(SubSeq(stack, 1, Len(stack) - 2), a.frame)
                     /\ engines' = [engines EXCEPT ![active] = a.engine]
                     /\ UNCHANGED <<pc, driver, idlog, results, rootfirst>>
             ELSE /\ stack' = << >>
                  /\ UNCHANGED <<engines, rootfirst>>
                  /\ IF active = "id"
                     THEN EndIteration(result)
                     ELSE /\ results' = Append(results, [request |-> request,
                                                         result |-> result])
                          /\ pc' = "idle"
                          /\ UNCHANGED <<driver, idlog>>
    /\ UNCHANGED <<active, request, nsearch, settings, lastcall, posVars, contVars,
                   uciVars>>

EngNext ==
    \/ FindBestMovePlain
    \/ FindBestMoveFresh
    \/ FindBestMoveID
    \/ Iterate
    \/ Explore
    \/ Return

SpecEngine == EngInit /\ [][EngNext]_vars

(***************************************************************************)
(* The IterativeDeepeningEngine on its own, for every final depth from 0.  *)
(***************************************************************************)
\* The (depth, extra_depth) an IterativeDeepeningEngine is built with.
DriverSettings == {<<0, 0>>, <<1, 0>>, <<2, 1>>}

DriverInit ==
    /\ PosIdle
    /\ ContIdle
    /\ EngIdle
    /\ \E s \in DriverSettings :
          /\ settings = [depth |-> s[1], extra_depth |-> s[2]]
          /\ engines = [plain |-> AlphaBetaEngine_new(s[1], s[2]),
                        fresh |-> AlphaBetaEngine_new(s[1], s[2]),
                        id |-> AlphaBetaEngine_new(6, 0)]

DriverNext ==
    \/ FindBestMoveID
    \/ Iterate
    \/ Explore
    \/ Return

SpecDriver == DriverInit /\ [][DriverNext]_vars

\* C11: for every final depth D (0 included) and extra depth E,
\* IterativeDeepeningEngine::find_best_move returns after at most D searches:
\* a call in progress has completed at most D searches, and a call that
\* returned has its result.
C11_AtMostDSearches ==
    request.kind = "id" =>
        /\ Len(idlog) <= settings.depth
        /\ pc = "idle" => results[Len(results)].request = request

(***************************************************************************)
(* The UCI adapter: UciPlayer::handle_message, one message after another.  *)
(***************************************************************************)
\* The number of messages handled.
MaxMessages == 2

\* The final depth of the adapter's solver in the model.
SolverDepth == 1

\* The messages handled: position startpos / position fen, each with a list
\* of moves, go, ucinewgame and isready.
UciMoveLists == {<< >>, << <<12, 28>> >>}

PositionMessages ==
    {UciMessage("position", TRUE, None, ms) : ms \in UciMoveLists}
    \cup {UciMessage("position", FALSE, Some(FenPawnJumping1), ms) : ms \in UciMoveLists}

\* uci_move_to_move(mv, is_white)
uci_move_to_move(mv, is_white) == NewMove(mv[1], mv[2], is_white)

\* UciPlayer::play_moves(moves) from position g with side w to move: the
\* position and the side to move it leaves.
RECURSIVE play_moves(_, _, _)
play_moves(g, w, moves) ==
    IF moves = << >>
    THEN [game |-> g, white_to_move |-> w]
    ELSE play_moves(apply_move_unsafe(g, uci_move_to_move(Head(moves), w)), ~w,
                    Tail(moves))

\* The position and side to move that handle_message(Position) installs.
InstallPosition(msg) ==
    LET g0 == IF msg.startpos THEN standard_game ELSE game
        w0 == IF msg.startpos THEN TRUE ELSE white_to_move
        g1 == IF msg.fen # None THEN from_fen(msg.fen[1]) ELSE g0
    IN play_moves(g1, w0, msg.moves)

UciInit ==
    /\ game = standard_game
    /\ white_to_move = TRUE
    /\ nmoves = 0
    /\ container = SimpleNew
    /\ last = Last("new", TRUE, NoMove, TRUE, 0, standard_game)
    /\ ContIdle
    /\ EngIdle
    /\ settings = [depth |-> SolverDepth, extra_depth |-> 0]
    /\ engines = [plain |-> AlphaBetaEngine_new(0, 0),
                  fresh |-> AlphaBetaEngine_new(0, 0),
                  id |-> AlphaBetaEngine_new(6, 0)]

\* The adapter is ready for a message.
UciReady ==
    /\ pc = "idle"
    /\ ~uci.searching
    /\ uci.answer.kind # "panic"
    /\ uci.handled < MaxMessages

\* handle_message(Position {startpos, fen, moves}) up to the loop of the
\* solver: the position is installed, the moves are played, find_best_move
\* is called.
HandlePosition ==
    /\ UciReady
    /\ \E msg \in PositionMessages :
       \E p \in {InstallPosition(msg)} :
          /\ game' = p.game
          /\ white_to_move' = p.white_to_move
          /\ uci' = [handled |-> uci.handled + 1, message |-> msg,
                     answer |-> Answer("None", << >>), searching |-> TRUE]
          /\ StartDriver([game |-> p.game, white |-> p.white_to_move])
    /\ UNCHANGED <<nmoves, container, last, contVars>>

\* UciPlayer::find_best_move after the solver returned: best_move.unwrap(),
\* and the answer of handle_message(Position).
AnswerPosition ==
    /\ pc = "idle"
    /\ uci.searching
    /\ \E r \in {results[Len(results)].result} :
          uci' = [uci EXCEPT !.searching = FALSE,
                             !.answer = IF r.best_move = None
                                        THEN Answer("panic", << >>)
                                        ELSE Answer("BestMove", <<r.best_move[1].from,
                                                                  r.best_move[1].to>>)]
    /\ UNCHANGED <<posVars, contVars, engVars>>

\* handle_message(Go)
HandleGo ==
    /\ UciReady
    /\ uci' = [handled |-> uci.handled + 1,
               message |-> UciMessage("go", FALSE, None, << >>),
               answer |-> Answer("None", << >>), searching |-> FALSE]
    /\ UNCHANGED <<posVars, contVars, engVars>>

\* handle_message(UciNewGame)
HandleUciNewGame ==
    /\ UciReady
    /\ game' = standard_game
    /\ white_to_move' = TRUE
    /\ uci' = [handled |-> uci.handled + 1,
               message |-> UciMessage("ucinewgame", FALSE, None, << >>),
               answer |-> Answer("None", << >>), searching |-> FALSE]
    /\ UNCHANGED <<nmoves, container, last, contVars, engVars>>

\* handle_message(IsReady)
HandleIsReady ==
    /\ UciReady
    /\ uci' = [handled |-> uci.handled + 1,
               message |-> UciMessage("isready", FALSE, None, << >>),
               answer |-> Answer("EngineReady", << >>), searching |-> FALSE]
    /\ UNCHANGED <<posVars, contVars, engVars>>

UciNext ==
    \/ HandlePosition
    \/ AnswerPosition
    \/ HandleGo
    \/ HandleUciNewGame
    \/ HandleIsReady
    \/ Iterate
    \/ Explore
    \/ Return

SpecUci == UciInit /\ [][UciNext]_vars

\* C12: the best-move answer is produced in response to go: a BestMove answer
\* is the answer to a go message, a go message handled is answered by
\* BestMove, and a position message is answered by nothing.
C12_BestMoveOnGo ==
    ~uci.searching =>
        /\ uci.answer.kind = "BestMove" => uci.message.kind = "go"
        /\ uci.message.kind = "go" => uci.answer.kind = "BestMove"
        /\ uci.message.kind = "position" => uci.answer.kind = "None"

\* The base position a position message names.
BasePosition(msg) == IF msg.startpos THEN standard_game ELSE from_fen(msg.fen[1])

\* The moves ms applied in order to g, white moving first and the colours
\* alternating.
RECURSIVE MovesApplied(_, _, _)
MovesApplied(g, ms, k) ==
    IF k = 0 THEN g
    ELSE apply_move_unsafe(MovesApplied(g, ms, k - 1),
                           NewMove(ms[k][1], ms[k][2], k % 2 = 1))

\* C13: once a position message listing n moves is handled, the adapter's
\* position is the base position it names with the n moves applied in order
\* and white is to move iff n is even, whatever was handled before.
C13_PositionInstalled ==
    uci.message.kind = "position" =>
        /\ game = MovesApplied(BasePosition(uci.message), uci.message.moves,
                               Len(uci.message.moves))
        /\ white_to_move = (Len(uci.message.moves) % 2 = 0)

(***************************************************************************)
(* alpha_beta_search node by node, on positions with captures at hand and  *)
(* on a position where the side to play has no move.                       *)
(***************************************************************************)
\* The (depth, extra_depth) of the engine searching these positions.
NodeSettings == {<<0, 0>>, <<1, 1>>, <<2, 1>>}

\* Pawns that can capture and be recaptured at once.
FenPawnExchange ==
    << <<"4", "k", "3">>, <<"8">>, <<"8">>, <<"8">>,
       <<"2", "p", "5">>, <<"3", "p", "4">>, <<"4", "P", "3">>, <<"4", "K", "3">> >>

\* Two kings of one colour: the other side has nothing to move.
FenTwoWhiteKings ==
    << <<"8">>, <<"8">>, <<"8">>, <<"8">>,
       <<"8">>, <<"8">>, <<"8">>, <<"K", "6", "K">> >>

FenTwoBlackKings ==
    << <<"k", "6", "k">>, <<"8">>, <<"8">>, <<"8">>,
       <<"8">>, <<"8">>, <<"8">>, <<"8">> >>

\* A pawn that a king takes wherever it goes: the side of the pawn then has
\* no piece left, on a board that still has two kings.
FenLonePawn ==
    << <<"8">>, <<"4", "p", "3">>, <<"8">>, <<"3", "K", "4">>,
       <<"8">>, <<"8">>, <<"8">>, <<"K", "7">> >>

RootLonePawn == [game |-> block_castling(from_fen(FenLonePawn)), white |-> FALSE]
RootCapture == [game |-> block_castling(from_fen(FenPawnExchange)), white |-> TRUE]
RootNoBlack == [game |-> block_castling(from_fen(FenTwoWhiteKings)), white |-> FALSE]
RootNoWhite == [game |-> block_castling(from_fen(FenTwoBlackKings)), white |-> TRUE]
NodeRoots == {RootCapture, RootNoBlack, RootNoWhite, RootLonePawn}

NodeInit ==
    /\ PosIdle
    /\ ContIdle
    /\ EngIdle
    /\ \E s \in NodeSettings :
          /\ settings = [depth |-> s[1], extra_depth |-> s[2]]
          /\ engines = [plain |-> AlphaBetaEngine_new(s[1], s[2]),
                        fresh |-> AlphaBetaEngine_new(s[1], s[2]),
                        id |-> AlphaBetaEngine_new(6, 0)]

\* find_best_move on the AlphaBetaEngine kept from call to call.
FindBestMoveNode ==
    \E r \in NodeRoots : StartSearch("plain", engines.plain, [kind |-> "plain", root |-> r])

\* AlphaBetaEngine::new(depth, extra_depth).alpha_beta_search(game, white, 0,
\* i32::MIN, i32::MAX, false, None): the public search called without
\* find_best_move or set_engine_depth before it.
SearchDirect ==
    \E r \in NodeRoots \cup {RootB} :
        StartCall("fresh", AlphaBetaEngine_new(settings.depth, settings.extra_depth),
                  [kind |-> "direct", root |-> r])

NodeNext ==
    \/ FindBestMoveNode
    \/ SearchDirect
    \/ Explore
    \/ Return

SpecNodes == NodeInit /\ [][NodeNext]_vars

\* The terminal condition of a call as the claim words it.
TerminalCondition(c) ==
    \/ is_finished(c.game)
    \/ ~c.is_last_move_a_capture /\ c.depth >= c.limits[1]
    \/ c.is_last_move_a_capture /\ c.depth >= c.limits[1] + c.limits[2]

\* C14: a call of alpha_beta_search returns without generating any move iff
\* the position is finished, or the last move was no capture and ply >= depth,
\* or it was a capture and ply >= depth + extra_depth; it then returns no best
\* move and the score of the position, found in the table or not.
C14_TerminalNode ==
    lastcall.made =>
        /\ ~lastcall.generated <=> TerminalCondition(lastcall)
        /\ TerminalCondition(lastcall) =>
               lastcall.result = Some([score |-> Fin(score(lastcall.game)),
                                       best_move |-> None])

\* A call after a capture, beyond depth + extra_depth, on a position that is
\* not finished and is in the table already.
C14_Witness ==
    /\ lastcall.made
    /\ ~lastcall.generated
    /\ lastcall.cached
    /\ lastcall.is_last_move_a_capture
    /\ ~is_finished(lastcall.game)
    /\ lastcall.result = Some([score |-> Fin(score(lastcall.game)), best_move |-> None])

\* The frames of the search in progress are the nodes being expanded, the
\* root first; the move leading to frame i is the move its parent is on.
LeadingMove(i) == stack[i - 1].m[1]

NoMoveRoot(req) ==
    /\ ~is_finished(req.root.game)
    /\ settings.depth > 0
    /\ GeneratedMoves(req.root.game, req.root.white) = << >>

\* C18: a call on a non-terminal node whose container is empty after
\* generation returns no best move and the initial score, ScoreType::MIN for
\* white and ScoreType::MAX for black, without recursing: no call follows
\* the call on such a root, and it returns that result.
C18_EmptyContainer ==
    /\ \A i \in 1 .. Len(results) :
          NoMoveRoot(results[i].request) =>
              /\ results[i].result.best_move = None
              /\ results[i].result.score = IF results[i].request.root.white
                                           THEN SCORE_MIN ELSE SCORE_MAX
    /\ (request # NoRequest /\ NoMoveRoot(request)) =>
          /\ lastcall.depth = 0
          /\ lastcall.generated
          /\ lastcall.moves = 0
          /\ Len(stack) <= 1

\* Both a white and a black root without a move were searched.
C18_Witness ==
    /\ \E i \in 1 .. Len(results) :
          /\ results[i].request.root = RootNoBlack
          /\ results[i].result = [score |-> SCORE_MAX, best_move |-> None]
    /\ \E i \in 1 .. Len(results) :
          /\ results[i].request.root = RootNoWhite
          /\ results[i].result = [score |-> SCORE_MIN, best_move |-> None]
    /\ settings.depth > 0

\* C16: when the running best score of a node reaches the cutoff bound
\* (white: score >= beta, black: score <= alpha), the move that produced the
\* cutoff is the last one appended to killer_moves of the node's ply, for
\* both sides.
C16_KillerOnCutoff ==
    \A i \in 1 .. Len(stack) :
        stack[i].cutoff =>
            /\ stack[i].depth \in DOMAIN engines[active].killer_moves
            /\ engines[active].killer_moves[stack[i].depth] # << >>
            /\ LET ks == engines[active].killer_moves[stack[i].depth]
               IN SameMove(ks[Len(ks)], stack[i].m[1])

\* C17: the killer list stored for each ply holds at most 2 moves, and at
\* most 2 killer moves are added to the container of a node.
C17_AtMostTwoKillers ==
    /\ \A which \in DOMAIN engines :
       \A d \in DOMAIN engines[which].killer_moves :
          Len(engines[which].killer_moves[d]) <= 2
    /\ \A d \in 0 .. 6 : Len(KillersAt(engines[active], d)) <= 2

(***************************************************************************)
(* Reference notions the claims are stated with, defined from the rules    *)
(* of chess by board coordinates rather than by the attack tables.         *)
(***************************************************************************)
Rank(sq) == sq \div 8
File(sq) == sq % 8
Abs(x) == IF x < 0 THEN -x ELSE x
Sgn(x) == IF x < 0 THEN -1 ELSE IF x > 0 THEN 1 ELSE 0

\* The bitboard of one piece type.
Board(g, t) ==
    CASE t = "Pawn" -> g.pawns
      [] t = "Bishop" -> g.bishops
      [] t = "Knight" -> g.knights
      [] t = "Rook" -> g.rooks
      [] t = "Queen" -> g.queens
      [] t = "King" -> g.kings

TypesAt(g, sq) == {t \in Types : sq \in Board(g, t)}

\* The squares holding a piece of one side.
Own(g, white) == {sq \in Occupancy(g) : (sq \in g.whites) = white}

\* The squares strictly between two squares of one line.
StrictlyBetween(from, to) ==
    LET n == Max(Abs(Rank(to) - Rank(from)), Abs(File(to) - File(from)))
    IN {(Rank(from) + k * Sgn(Rank(to) - Rank(from))) * 8
         + File(from) + k * Sgn(File(to) - File(from)) : k \in 1 .. (n - 1)}

Aligned(from, to, t) ==
    LET dr == Abs(Rank(to) - Rank(from))
        df == Abs(File(to) - File(from))
    IN CASE t = "Rook" -> dr = 0 \/ df = 0
         [] t = "Bishop" -> dr = df
         [] t = "Queen" -> dr = 0 \/ df = 0 \/ dr = df

\* from -> to is a pseudo-legal move of a piece of type t and colour white
\* standing on from (castling apart).
PseudoLegalFor(g, t, white, from, to) ==
    LET dr == Rank(to) - Rank(from)
        df == File(to) - File(from)
        fwd == IF white THEN 1 ELSE -1
        start == IF white THEN 1 ELSE 6
    IN /\ from # to
       /\ to \notin Own(g, white)
       /\ CASE t = "Knight" -> {Abs(dr), Abs(df)} = {1, 2}
            [] t = "King" -> Max(Abs(dr), Abs(df)) = 1
            [] t \in {"Rook", "Bishop", "Queen"} ->
                 Aligned(from, to, t) /\ StrictlyBetween(from, to) \cap Occupancy(g) = {}
            [] t = "Pawn" ->
                 \/ df = 0 /\ dr = fwd /\ to \notin Occupancy(g)
                 \/ df = 0 /\ dr = 2 * fwd /\ Rank(from) = start
                    /\ to \notin Occupancy(g) /\ StrictlyBetween(from, to) \cap Occupancy(g) = {}
                 \/ Abs(df) = 1 /\ dr = fwd /\ to \in Own(g, ~white)

PseudoLegalPairs(g, white) ==
    {p \in Own(g, white) \X Squares :
        \E t \in TypesAt(g, p[1]) : PseudoLegalFor(g, t, white, p[1], p[2])}

\* Position invariants 1, 2 and 4: disjoint piece bitboards, every white bit
\* on a piece, no pawn on the first or last rank.
PiecesDisjoint(g) ==
    \A t1 \in Types : \A t2 \in Types \ {t1} : Board(g, t1) \cap Board(g, t2) = {}

PositionInvariants(g) ==
    /\ PiecesDisjoint(g)
    /\ g.whites \subseteq Occupancy(g)
    /\ \A sq \in g.pawns : Rank(sq) \notin {0, 7}

CastlingDisabled(g) == {FLAG_WK_MOVED, FLAG_BK_MOVED} \subseteq g.flags

ContainerPairs(c) == {<<c.moves[i].from, c.moves[i].to>> : i \in 1 .. Len(c.moves)}

C2_EmittedMovesWellFormed ==
    last.op = "generate" =>
        \A i \in 1 .. Len(container.moves) :
            LET m == container.moves[i]
            IN /\ m.from # m.to
               /\ m.from \in Squares /\ m.to \in Squares
               /\ m.is_white = last.white
               /\ m.from \in Own(game, last.white)
               /\ m.to \notin Own(game, last.white)

\* C3: in every position reached by apply_move_unsafe calls of the search or
\* of the UCI adapter, the six piece bitboards are pairwise disjoint and
\* whites is a subset of their union.
C3_Disjointness == PiecesDisjoint(game) /\ game.whites \subseteq Occupancy(game)

\* C5: apply_move_safe returns false and leaves the position unchanged for
\* every move that is not a pseudo-legal move of the piece standing on from.
C5_InvalidMoveRejected ==
    (last.op = "safe"
        /\ <<last.move.from, last.move.to>>
              \notin PseudoLegalPairs(last.before, last.move.from \in last.before.whites))
    => (~last.ok /\ game = last.before)

RECURSIVE SumOver(_, _)
\* The sum of f over a finite set in the domain of f.
SumOver(f, S) ==
    IF S = {} THEN 0
    ELSE LET x == CHOOSE y \in S : TRUE IN f[x] + SumOver(f, S \ {x})

\* The material values the score is stated with.
MaterialValue == [t \in Types |->
    CASE t = "Pawn" -> 1 [] t = "Bishop" -> 3 [] t = "Knight" -> 3
      [] t = "Rook" -> 5 [] t = "Queen" -> 10 [] t = "King" -> 1000]

\* White material minus black material.
MaterialBalance(g) ==
    SumOver([t \in Types |->
                MaterialValue[t] * (Cardinality(Board(g, t) \cap g.whites)
                                    - Cardinality(Board(g, t) \ g.whites))], Types)

ExpectedQualities(g, m) ==
    IF m.to \notin Occupancy(g) THEN {"Motion"}
    ELSE {CASE a = "Pawn" -> "GoodCapture"
            [] a = "King" -> "EqualCapture"
            [] OTHER -> IF MaterialValue[a] < MaterialValue[v] THEN "GoodCapture"
                        ELSE IF MaterialValue[a] = MaterialValue[v] THEN "EqualCapture"
                        ELSE "LowCapture" :
          a \in TypesAt(g, m.from), v \in TypesAt(g, m.to)}

SameOption(a, b) ==
    \/ a = None /\ b = None
    \/ a # None /\ b # None /\ SameMove(a[1], b[1])

\* C8: find_best_move of an IterativeDeepeningEngine of target depth D >= 1
\* runs the alpha-beta search at depths 1, 2, ..., D in this order; the
\* search at each depth above 1 explores first, at the root, the best move
\* the previous depth returned; the result returned is the one of depth D.
C8_IterativeDeepening ==
    /\ Len(idlog) <= settings.depth
    /\ \A i \in 1 .. Len(idlog) :
          /\ idlog[i].depth = i
          /\ i > 1 => /\ idlog[i].seed = idlog[i - 1].result.best_move
                      /\ SameOption(idlog[i].explored, idlog[i - 1].result.best_move)
    /\ (request.kind = "id" /\ pc = "idle") =>
          /\ Len(idlog) = settings.depth
          /\ results[Len(results)].request = request
          /\ results[Len(results)].result = idlog[settings.depth].result

\* A call with target depth 2 returned: its second search explored first the
\* best move of the first one, by then a move other than the first the
\* generator's order gives.
C8_Witness ==
    /\ request.kind = "id"
    /\ pc = "idle"
    /\ settings.depth = 2
    /\ Len(idlog) = 2
    /\ idlog[2].explored # None
    /\ idlog[1].explored # None
    /\ ~SameMove(idlog[2].explored[1], idlog[1].explored[1])

\* C9: for a position, side to move, depth D and extra depth E,
\* IterativeDeepeningEngine::find_best_move returns the same best move as
\* AlphaBetaEngine::find_best_move.
C9_SameBestMove ==
    \A i \in 1 .. Len(results) : \A j \in 1 .. Len(results) :
        (/\ results[i].request.kind = "id"
         /\ results[j].request.kind \in {"plain", "fresh"}
         /\ results[i].request.root = results[j].request.root)
        => SameOption(results[i].result.best_move, results[j].result.best_move)

\* C10: two calls of find_best_move on one AlphaBetaEngine with the same
\* depth settings, position and side to move return the same score, whatever
\* other searches the instance ran in between: the score is the one an
\* engine built for the call returns.
C10_SameScore ==
    \A i \in 1 .. Len(results) : \A j \in 1 .. Len(results) :
        (/\ results[i].request.kind \in {"plain", "fresh"}
         /\ results[j].request.kind \in {"plain", "fresh"}
         /\ results[i].request.root = results[j].request.root)
        => results[i].result.score = results[j].result.score

\* Three calls on the kept engine returned, the first and the third on the
\* same position, the second on another one; the table holds scores.
C10_Witness ==
    /\ Len(results) = 3
    /\ pc = "idle"
    /\ \A i \in 1 .. 3 : results[i].request.kind = "plain"
    /\ results[1].request.root = results[3].request.root
    /\ results[2].request.root # results[1].request.root
    /\ results[1].result.score = results[3].result.score
    /\ results[1].result.best_move # None
    /\ DOMAIN engines.plain.transposition_table # {}

\* The seven board words of a position.
BoardWords(g) == <<g.whites, g.pawns, g.bishops, g.knights, g.rooks, g.queens, g.kings>>

\* The last operation was a call of apply_move_unsafe.
Applied == last.op \in {"apply", "uci"} \/ (last.op = "safe" /\ last.ok)

\* The squares the claim lets apply_move_unsafe(m) change: m.from and m.to
\* and, for a king moving by two squares, the corner squares and the squares
\* next to the king's destination.
Corners == {0, 7, 56, 63}

FrameSquares(g, m) ==
    {m.from, m.to}
    \cup (IF type_at_index(g, m.from) = "King" /\ Abs(m.to - m.from) = 2
          THEN Corners \cup ({m.to - 1, m.to + 1} \cap Squares)
          ELSE {})

\* C19: apply_move_unsafe(m) changes the board words only at m.from and m.to
\* and, for a king moving by two squares, at the rook's corner square and the
\* square next to the king's destination; the flags change only when a king
\* moves; nothing changes when m.from is empty.
C19_FrameOfApply ==
    Applied =>
        /\ \A k \in 1 .. 7 : \A sq \in Squares \ FrameSquares(last.before, last.move) :
              (sq \in BoardWords(game)[k]) <=> (sq \in BoardWords(last.before)[k])
        /\ game.flags # last.before.flags => type_at_index(last.before, last.move.from) = "King"
        /\ ~has_piece_at(last.before, last.move.from) => game = last.before

\* The flags of a side: king moved, king castled.
MovedFlag(white) == IF white THEN FLAG_WK_MOVED ELSE FLAG_BK_MOVED
CastledFlag(white) == IF white THEN FLAG_WK_CASTLED ELSE FLAG_BK_CASTLED

\* The colour of the piece that apply_move_unsafe moved.
MoverIsWhite == last.move.from \in last.before.whites

\* C20: no flag is cleared by apply_move_unsafe; a side's king-moved flag
\* becomes set when that side's king moves, and only then; its king-castled
\* flag only on a two-square move of its king; castled implies moved.
C20_Flags ==
    Applied =>
        /\ last.before.flags \subseteq game.flags
        /\ \A white \in BOOLEAN :
              /\ (type_at_index(last.before, last.move.from) = "King" /\ MoverIsWhite = white)
                    => MovedFlag(white) \in game.flags
              /\ MovedFlag(white) \in game.flags \ last.before.flags
                    => type_at_index(last.before, last.move.from) = "King" /\ MoverIsWhite = white
              /\ CastledFlag(white) \in game.flags \ last.before.flags
                    => /\ type_at_index(last.before, last.move.from) = "King"
                       /\ MoverIsWhite = white
                       /\ Abs(last.move.to - last.move.from) = 2
              /\ CastledFlag(white) \in game.flags => MovedFlag(white) \in game.flags

\* No pawn stands on rank 0 or rank 7.
NoPawnOnBackRanks(g) == \A sq \in g.pawns : Rank(sq) \notin {0, 7}

\* The last call of apply_move_unsafe moved a pawn onto rank 0 or rank 7.
Promoted ==
    /\ Applied
    /\ type_at_index(last.before, last.move.from) = "Pawn"
    /\ Rank(last.move.to) \in {0, 7}

\* C21: from positions with no pawn on rank 0 or 7, no sequence of
\* apply_move_unsafe calls leaves a pawn there: a pawn whose destination is on
\* rank 0 or 7 leaves the pawn bitboard and a queen of the mover's colour
\* (m.is_white) stands on the destination.
C21_Promotion ==
    /\ NoPawnOnBackRanks(game)
    /\ Promoted =>
          /\ last.move.from \notin game.pawns
          /\ last.move.to \notin game.pawns
          /\ TypesAt(game, last.move.to) = {"Queen"}
          /\ (last.move.to \in game.whites) <=> last.move.is_white

\* A pawn was promoted, by a push or by a capture.
C21_Witness ==
    /\ Promoted
    /\ last.move.to \in game.queens
    /\ NoPawnOnBackRanks(last.before)

\* The square a side's king castles from.
HomeSquare(white) == IF white THEN 4 ELSE 60

\* update_move_container(side) emits the move of the side's king from its
\* home square by delta files.
EmitsCastle(g, white, delta) ==
    /\ HomeSquare(white) \in pieces_for_color(g.whites, g.kings, white)
    /\ \E m \in SeqToSet(GeneratedMoves(g, white)) :
          m.from = HomeSquare(white) /\ m.to = HomeSquare(white) + delta

\* The conditions of a castle for the king on its home square k: the flag is
\* clear, the squares between are empty, the king's path is not attacked.
ShortCastleAllowed(g, white) ==
    LET k == HomeSquare(white)
    IN /\ k \in pieces_for_color(g.whites, g.kings, white)
       /\ MovedFlag(white) \notin g.flags
       /\ {k + 1, k + 2} \cap Occupancy(g) = {}
       /\ {k, k + 1, k + 2} \cap get_attacked_squares(g, ~white) = {}

LongCastleAllowed(g, white) ==
    LET k == HomeSquare(white)
    IN /\ k \in pieces_for_color(g.whites, g.kings, white)
       /\ MovedFlag(white) \notin g.flags
       /\ {k - 1, k - 2, k - 3} \cap Occupancy(g) = {}
       /\ {k, k - 1, k - 2} \cap get_attacked_squares(g, ~white) = {}

\* C22: the short castle (king move by +2) is emitted iff the side's
\* king-moved flag is clear, the two squares between king and rook are empty
\* and the king's square and the two next to it are not attacked; the long
\* castle (by -2) iff the flag is clear, the three squares between are empty
\* and the king's square and the two before it are not attacked; a flag that
\* is set stays set, so no castle is emitted for that side afterwards.
\* Read after each run of the generator, for the side it ran for.
C22_CastleEmitted ==
    /\ last.op = "generate" =>
          /\ EmitsCastle(game, last.white, 2) <=> ShortCastleAllowed(game, last.white)
          /\ EmitsCastle(game, last.white, -2) <=> LongCastleAllowed(game, last.white)
          /\ MovedFlag(last.white) \in game.flags =>
                ~EmitsCastle(game, last.white, 2) /\ ~EmitsCastle(game, last.white, -2)
    /\ Applied => last.before.flags \subseteq game.flags

\* A side castled short with an emitted move; its flag is set and no castle
\* is emitted for it any more.
C22_Witness ==
    /\ last.op = "apply"
    /\ EmitsCastle(last.before, last.white, 2)
    /\ last.move.from = HomeSquare(last.white)
    /\ last.move.to = HomeSquare(last.white) + 2
    /\ MovedFlag(last.white) \in game.flags
    /\ ~EmitsCastle(game, last.white, 2)
    /\ ~EmitsCastle(game, last.white, -2)

\* Square to is attacked from square from by a piece of type t of colour
\* white, by the geometry of the board.
AttackedFrom(g, t, white, from, to) ==
    LET dr == Rank(to) - Rank(from)
        df == File(to) - File(from)
    IN /\ from # to
       /\ CASE t = "Pawn" -> dr = (IF white THEN 1 ELSE -1) /\ Abs(df) = 1
            [] t = "Knight" -> {Abs(dr), Abs(df)} = {1, 2}
            [] t = "King" -> Max(Abs(dr), Abs(df)) = 1
            [] OTHER -> Aligned(from, to, t)
                        /\ StrictlyBetween(from, to) \cap Occupancy(g) = {}

\* The squares attacked by a side: by its pawns, knights and king, and by
\* its rooks, bishops and queens up to and including the first occupied
\* square of each ray.
AttackedSquares(g, white) ==
    {to \in Squares :
        \E t \in Types :
        \E from \in pieces_for_color(g.whites, Board(g, t), white) :
            AttackedFrom(g, t, white, from, to)}

\* C23: get_attacked_squares(side) is the union of the attacks of the side's
\* pawns, knights and king and, for its rooks, bishops and queens, of the
\* squares of each ray up to and including the first occupied square.
\* Read in every position on which the generator has run, for both sides.
C23_AttackedSquares ==
    last.op = "generate" =>
        \A white \in BOOLEAN :
            get_attacked_squares(game, white) = AttackedSquares(game, white)

\* A rook, bishop or queen attacks an occupied square and not the next one
\* of the same ray.
C23_Witness ==
    /\ last.op = "generate"
    /\ MovedFlag(last.white) \notin game.flags
    /\ \E white \in {~last.white} :
       \E t \in {"Rook", "Bishop", "Queen"} :
       \E from \in pieces_for_color(game.whites, Board(game, t), white) :
       \E to \in Occupancy(game) :
       \E beyond \in Squares :
           /\ AttackedFrom(game, t, white, from, to)
           /\ to \in get_attacked_squares(game, white)
           /\ Aligned(from, beyond, t)
           /\ to \in StrictlyBetween(from, beyond)
           /\ beyond \notin get_attacked_squares(game, white)

\* The castles of a side in a position: the two-square moves of its king
\* from its home square under the conditions of a castle.
CastlePairs(g, white) ==
    {<<HomeSquare(white), HomeSquare(white) + 2>> : x \in {1} \cap {IF ShortCastleAllowed(g, white) THEN 1 ELSE 0}}
    \cup {<<HomeSquare(white), HomeSquare(white) - 2>> : x \in {1} \cap {IF LongCastleAllowed(g, white) THEN 1 ELSE 0}}

\* C24: at every node expanded by alpha_beta_search, the move popped and
\* applied (generated, seed or killer) is a pseudo-legal move of the side to
\* move in the node's position: a piece of that side on its source, none of
\* that side on its destination, the geometry of the piece obeyed.
C24_PoppedMovesPseudoLegal ==
    \A i \in 1 .. Len(stack) :
        stack[i].m # None =>
            /\ stack[i].m[1].from \in Own(stack[i].game, stack[i].white_to_play)
            /\ stack[i].m[1].to \notin Own(stack[i].game, stack[i].white_to_play)
            /\ <<stack[i].m[1].from, stack[i].m[1].to>>
                   \in PseudoLegalPairs(stack[i].game, stack[i].white_to_play)
                       \cup CastlePairs(stack[i].game, stack[i].white_to_play)

\* The greatest and the least of a non-empty set of scores.
ScoreSetMax(S) == CHOOSE x \in S : \A y \in S : ScoreLe(y, x)
ScoreSetMin(S) == CHOOSE x \in S : \A y \in S : ScoreLe(x, y)

\* The minimax value of the tree below position g at ply: the nodes are
\* expanded with the generated moves, the leaves are given by the terminal
\* test for limits D and E and valued by score().
RECURSIVE Minimax(_, _, _, _, _, _)
Minimax(g, white, ply, cap, D, E) ==
    IF is_finished(g) \/ (~cap /\ ply >= D) \/ (cap /\ ply >= D + E)
    THEN Fin(score(g))
    ELSE LET children == {<<apply_move_unsafe(g, m), is_capture(m)>> :
                              m \in SeqToSet(GeneratedMoves(g, white))}
             vals == {Minimax(c[1], ~white, ply + 1, c[2], D, E) : c \in children}
         IN IF vals = {} THEN (IF white THEN SCORE_MIN ELSE SCORE_MAX)
            ELSE IF white THEN ScoreSetMax(vals) ELSE ScoreSetMin(vals)

\* The static scores of the positions one generated move away from a root.
ScoresAfterOneMove(root) ==
    {Fin(score(apply_move_unsafe(root.game, m))) :
        m \in SeqToSet(GeneratedMoves(root.game, root.white))}

\* C25: the score returned by find_best_move equals the minimax value of the
\* root: pruning, move ordering, killer moves and the score cache never
\* change it; at depth 1 with extra_depth 0 the returned move maximises
\* (white) or minimises (black) the static score of the resulting position.
C25_MinimaxValue ==
    /\ (pc = "idle" /\ results # << >>) =>
          results[Len(results)].result.score =
              Minimax(results[Len(results)].request.root.game,
                      results[Len(results)].request.root.white,
                      0, FALSE, settings.depth, settings.extra_depth)
    /\ (pc = "iterate" /\ Len(idlog) = 1 /\ settings.extra_depth = 0) =>
          /\ idlog[1].result.best_move # None
          /\ Fin(score(apply_move_unsafe(request.root.game, idlog[1].result.best_move[1])))
                = IF request.root.white THEN ScoreSetMax(ScoresAfterOneMove(request.root))
                  ELSE ScoreSetMin(ScoresAfterOneMove(request.root))

\* C26: whenever a cutoff records a killer move, killer_moves has an entry
\* for the ply, so the lookup never fails, whichever way alpha_beta_search
\* was reached: no engine has panicked on the lookup.
C26_KillerEntryExists ==
    \A k \in DOMAIN engines : ~engines[k].panicked

\* The squares that hold a piece: the union of the piece bitboards.
PieceSquares(g) == g.pawns \cup g.bishops \cup g.knights \cup g.rooks \cup g.queens \cup g.kings

\* C27: apply_move_unsafe of a move emitted by update_move_container never
\* increases the number of pieces on the board nor the number of pieces of
\* either colour, castling moves included.
C27_NoPieceAdded ==
    (last.op = "apply" /\ nmoves = 1) =>
        /\ Cardinality(PieceSquares(game)) <= Cardinality(PieceSquares(last.before))
        /\ Cardinality(PieceSquares(game) \cap game.whites)
              <= Cardinality(PieceSquares(last.before) \cap last.before.whites)
        /\ Cardinality(PieceSquares(game) \ game.whites)
              <= Cardinality(PieceSquares(last.before) \ last.before.whites)

\* The root of a request is terminal for the engine settings: the search
\* returns at once, with no best move.
TerminalRoot(root) == is_finished(root.game) \/ settings.depth = 0

\* C28: find_best_move returns Some(move) on a root that is not terminal and
\* for which the generator yields a move; best_move is None only for a
\* terminal root or a root with no move.
C28_BestMoveIsSome ==
    \A i \in 1 .. Len(results) :
        results[i].result.best_move = None =>
            \/ TerminalRoot(results[i].request.root)
            \/ GeneratedMoves(results[i].request.root.game,
                               results[i].request.root.white) = << >>

\* C29: every move emitted by update_move_container for a position is
\* accepted by the validator of apply_move_safe on that position, castling
\* moves included, so that the move is applied when it is played through
\* apply_move_safe.
C29_GeneratedMovesValid ==
    \A white \in BOOLEAN :
        \A m \in SeqToSet(GeneratedMoves(game, white)) :
            apply_move_safe(game, NewMove(m.from, m.to, white)).ok

\* The move m applied to position g by the side white removes an opposing
\* piece: its destination holds a piece of the other side.
RemovesOpposingPiece(g, white, m) == m.to \in Own(g, ~white)

\* C30: the flag that the move loop of alpha_beta_search passes to the child
\* call is true iff the applied move removed an opposing piece, also for a
\* seed move retagged Principal and a killer move retagged KillerMove.
C30_CaptureFlag ==
    /\ \A i \in 2 .. Len(stack) :
          stack[i].is_last_move_a_capture
              <=> RemovesOpposingPiece(stack[i - 1].game, stack[i - 1].white_to_play,
                                       stack[i - 1].m[1])
    /\ (/\ lastcall.made
        /\ stack # << >>
        /\ stack[Len(stack)].m # None
        /\ lastcall.depth = stack[Len(stack)].depth + 1
        /\ lastcall.game = apply_move_unsafe(stack[Len(stack)].game, stack[Len(stack)].m[1]))
         => (lastcall.is_last_move_a_capture
               <=> RemovesOpposingPiece(stack[Len(stack)].game,
                                        stack[Len(stack)].white_to_play,
                                        stack[Len(stack)].m[1]))

=============================================================================
